---- MODULE Spec2Model ----
(***************************************************************************)
(* Extension lifecycle runner (strawberry/extensions/context.py,           *)
(* strawberry/extensions/runner.py) and subscription execution driver      *)
(* (strawberry/schema/subscribe.py).                                       *)
(*                                                                         *)
(* A method of an extension class is a record [shape, body]: shape is what *)
(* inspect sees ("func", "coro", "gen", "asyncgen"; "none" for an absent   *)
(* attribute, "default" for the method inherited from the base class) and  *)
(* body is the sequence of things the method does when it runs: a side     *)
(* effect ("start", "end"), a checkpoint ("yield") or a failure ("fail").  *)
(***************************************************************************)
EXTENDS Integers, Sequences, FiniteSets, TLC

VARIABLES
    extensions,   \* the runner's list of registered extensions (their classes)
    phase,        \* one phase scope: the HOOK_NAME of the manager
    mode,         \* one phase scope: "sync" (with) or "async" (async with)
    scope,        \* one phase scope: the with statement and its manager
    log,          \* the side effects made so far, in order
    warnings,     \* the deprecation warnings recorded so far
    ctx,          \* the ExecutionContext
    results,      \* results aggregation: the call made and what it gave
    source,       \* subscription: what parse/validate, the external subscribe
                  \* call and the external event iterator will answer
    fuse,         \* subscription: the executing scope (counted from 1) in
                  \* which the hooks marked "risky" fail and those marked
                  \* "note" write; 0 for never
    sub,          \* subscription: the _subscribe generator
    emitted,      \* subscription: the results _subscribe has yielded
    consumer      \* subscription: the caller of subscribe() / _subscribe()

vars == <<extensions, phase, mode, scope, log, warnings, ctx, results,
          source, fuse, sub, emitted, consumer>>
scopeVars == <<phase, mode, scope>>
subVars == <<source, fuse, sub, emitted, consumer>>

\* Longest list of registered extensions.
MaxExt == 2

SeqsUpTo(S, n) == UNION { [1..k -> S] : k \in 0..n }

----------------------------------------------------------------------------
(* The values the variables of a part that is not running rest at          *)

\* The with statement: stage is the last step made (the manager's
\* construction, its enter, the body, its exit), raised what that step raised.
NoScope == [stage |-> "new", hooks |-> <<>>, raised |-> "none"]

BodyRan == [hook |-> "body", extension |-> 0, op |-> "body"]

\* The _subscribe generator before its first advance.
NewDriver ==
    [pc |-> "unstarted", raised |-> "none", op_hooks |-> <<>>, running |-> FALSE,
     aiterator |-> "none", pulls |-> 0, scopes |-> 0]

NoConsumer ==
    [kind |-> "none", call |-> "none", wrapper |-> "none", delivered |-> <<>>,
     raised |-> "none"]

NoSubscription ==
    /\ source = [parse |-> "ok", subscribe |-> "iterator", events |-> <<>>]
    /\ fuse = 0
    /\ sub = NewDriver
    /\ emitted = <<>>
    /\ consumer = NoConsumer

----------------------------------------------------------------------------
(* Methods and extension classes                                           *)

NoMethod == [shape |-> "none", body |-> <<>>]
DefaultHook == [shape |-> "default", body |-> <<"yield">>]
Func(body) == [shape |-> "func", body |-> body]
Coro(body) == [shape |-> "coro", body |-> body]
Gen(body) == [shape |-> "gen", body |-> body]
AsyncGen(body) == [shape |-> "asyncgen", body |-> body]

\* The four lifecycle stages, by the name of their new-style hook.
HookNames == {"on_operation", "on_validate", "on_parse", "on_execute"}

\* The base class: the four default hooks, no legacy method.
Extension ==
    [on_operation |-> DefaultHook, on_validate |-> DefaultHook,
     on_parse |-> DefaultHook, on_execute |-> DefaultHook,
     on_request_start |-> NoMethod, on_request_end |-> NoMethod,
     on_validation_start |-> NoMethod, on_validation_end |-> NoMethod,
     on_parsing_start |-> NoMethod, on_parsing_end |-> NoMethod,
     on_executing_start |-> NoMethod, on_executing_end |-> NoMethod,
     get_results |-> [shape |-> "default", returns |-> <<>>]]

\* get_results overridden by a function, or a coroutine function, that
\* returns the mapping d.
GetResults(d) == [shape |-> "func", returns |-> d]
AsyncGetResults(d) == [shape |-> "coro", returns |-> d]

\* LEGACY_ENTER and LEGACY_EXIT of the context manager whose HOOK_NAME is h.
LEGACY_ENTER(h) ==
    CASE h = "on_operation" -> "on_request_start"
      [] h = "on_validate" -> "on_validation_start"
      [] h = "on_parse" -> "on_parsing_start"
      [] h = "on_execute" -> "on_executing_start"

LEGACY_EXIT(h) ==
    CASE h = "on_operation" -> "on_request_end"
      [] h = "on_validate" -> "on_validation_end"
      [] h = "on_parse" -> "on_parsing_end"
      [] h = "on_execute" -> "on_executing_end"

iscoroutinefunction(m) == m.shape = "coro"
isgeneratorfunction(m) == m.shape = "gen"
isasyncgenfunction(m) == m.shape = "asyncgen"

----------------------------------------------------------------------------
(* WrappedHook: the extension (its position in the registered list), the   *)
(* initialized generator (its body, the position it is suspended at and    *)
(* the number of times it has been advanced) and is_async.                 *)

WrappedHook(extension, body, is_async) ==
    [extension |-> extension, body |-> body, pc |-> 1, is_async |-> is_async,
     advanced |-> 0]

\* from_legacy with the call of on_end forgotten.
from_legacy_without_end(extension, on_start, on_end) ==
    LET body == (IF on_start.shape # "none" THEN on_start.body ELSE <<>>)
                \o <<"yield">>
    IN WrappedHook(extension, body,
                   iscoroutinefunction(on_start) \/ iscoroutinefunction(on_end))

\* from_legacy looking only at on_start to tell whether the wrapper is
\* suspend-capable.
from_legacy_by_start_only(extension, on_start, on_end) ==
    WrappedHook(extension,
                ((IF on_start.shape # "none" THEN on_start.body ELSE <<>>)
                 \o <<"yield">>)
                \o (IF on_end.shape # "none" THEN on_end.body ELSE <<>>),
                iscoroutinefunction(on_start))

from_legacy(extension, on_start, on_end) ==
    LET body == (IF on_start.shape # "none" THEN on_start.body ELSE <<>>)
                \o <<"yield">>
                \o (IF on_end.shape # "none" THEN on_end.body ELSE <<>>)
    IN IF iscoroutinefunction(on_start) \/ iscoroutinefunction(on_end)
       THEN WrappedHook(extension, body, TRUE)
       ELSE WrappedHook(extension, body, FALSE)

\* from_callable with the callable invoked again after the checkpoint.
from_callable_invoked_twice(extension, func) ==
    WrappedHook(extension, (func.body \o <<"yield">>) \o func.body,
                iscoroutinefunction(func))

from_callable(extension, func) ==
    IF iscoroutinefunction(func)
    THEN WrappedHook(extension, func.body \o <<"yield">>, TRUE)
    ELSE WrappedHook(extension, func.body \o <<"yield">>, FALSE)

\* The value of a call whose arguments are evaluated once, before the body of
\* the callee: Only({ f(x) : x \in {argument} }).
Only(S) == CHOOSE r \in S : TRUE

\* String literals: a literal is a sequence of pieces, text or replacement
\* fields.  An f-string puts the value of each field in its place; a plain
\* literal keeps the field as it is written, braces included.
Text(t) == [kind |-> "text", value |-> t]
Field(name) == [kind |-> "field", value |-> name]
FString(pieces, env) ==
    [k \in 1..Len(pieces) |->
        IF pieces[k].kind = "field" THEN env[pieces[k].value] ELSE pieces[k].value]
Literal(pieces) ==
    [k \in 1..Len(pieces) |->
        IF pieces[k].kind = "field"
        THEN (CASE pieces[k].value = "Extension" -> "{Extension}"
                [] pieces[k].value = "self.HOOK_NAME" -> "{self.HOOK_NAME}")
        ELSE pieces[k].value]

\* The names get_hook can use in a message, for the manager with HOOK_NAME h.
Names(h) ==
    ("Extension" :> "<class 'strawberry.extensions.base_extension.Extension'>")
    @@ ("self.HOOK_NAME" :> h)

\* The message of the RuntimeError get_hook raises: two adjacent literals,
\* the first an f-string, the second a plain one.
ConfigurationErrorMessage(h) ==
    FString(<<Field("Extension"),
              Text(" defines both legacy and new style extension hooks for ")>>,
            Names(h))
    \o Literal(<<Field("self.HOOK_NAME")>>)

\* get_hook of the manager with HOOK_NAME h, for the extension at position i
\* whose class is cls: a wrapper, nothing, or the configuration error.
get_hook(h, i, cls) ==
    LET on_start == cls[LEGACY_ENTER(h)]
        on_end == cls[LEGACY_EXIT(h)]
        is_legacy == on_start.shape # "none" \/ on_end.shape # "none"
        hook_fn == cls[h]
        overrides == hook_fn.shape # "default"
    IN IF is_legacy /\ overrides
       THEN [raised |-> "RuntimeError_both", warned |-> FALSE, hook |-> <<>>]
       ELSE IF is_legacy
       THEN [raised |-> "none", warned |-> TRUE,
             hook |-> <<from_legacy(i, on_start, on_end)>>]
       ELSE IF overrides /\ isgeneratorfunction(hook_fn)
       THEN [raised |-> "none", warned |-> FALSE,
             hook |-> <<WrappedHook(i, hook_fn.body, FALSE)>>]
       ELSE IF overrides /\ isasyncgenfunction(hook_fn)
       THEN [raised |-> "none", warned |-> FALSE,
             hook |-> <<WrappedHook(i, hook_fn.body, TRUE)>>]
       ELSE IF overrides
       THEN [raised |-> "none", warned |-> FALSE,
             hook |-> <<from_callable(i, hook_fn)>>]
       ELSE [raised |-> "none", warned |-> FALSE, hook |-> <<>>]

\* ExtensionContextManagerBase.__init__: the loop over the extensions from
\* position i on, with the hooks and deprecation warnings collected so far.
RECURSIVE init_from(_, _, _, _, _)
init_from(h, exts, i, hooks, warned) ==
    IF i > Len(exts)
    THEN [raised |-> "none", hooks |-> hooks, warned |-> warned]
    ELSE LET r == get_hook(h, i, exts[i])
         IN IF r.raised # "none"
            THEN [raised |-> r.raised, hooks |-> hooks, warned |-> warned]
            ELSE Only({ init_from(a1, a2, a3, a4, a5) :
                         a1 \in {h},
                         a2 \in {exts},
                         a3 \in {i + 1},
                         a4 \in {hooks \o r.hook},
                         a5 \in {IF r.warned THEN Append(warned, h) ELSE warned} })

\* The manager keeping a wrapper of the inherited default hook for every
\* extension that defines nothing for the phase.
ContextManager_wrapping_defaults(h, exts) ==
    [init_from(h, exts, 1, <<>>, <<>>) EXCEPT
        !.hooks = IF init_from(h, exts, 1, <<>>, <<>>).raised # "none" THEN @
                  ELSE [i \in 1..Len(exts) |->
                           IF get_hook(h, i, exts[i]).hook = <<>>
                           THEN WrappedHook(i, DefaultHook.body, FALSE)
                           ELSE get_hook(h, i, exts[i]).hook[1]]]

ContextManager(h, exts) == Only({ init_from(a1, a2, a3, a4, a5) :
                                   a1 \in {h},
                                   a2 \in {exts},
                                   a3 \in {1},
                                   a4 \in {<<>>},
                                   a5 \in {<<>>} })

----------------------------------------------------------------------------
(* Advancing an initialized generator: __next__ / __anext__.  Runs the     *)
(* body from the position it is suspended at up to the next checkpoint     *)
(* ("yielded"), its end ("stop": StopIteration / StopAsyncIteration) or a  *)
(* failure ("error"); a finished generator stops at once.                  *)

RECURSIVE run_body(_, _, _)
run_body(body, pc, effects) ==
    IF pc > Len(body)
    THEN [pc |-> pc, effects |-> effects, outcome |-> "stop"]
    ELSE IF body[pc] = "yield"
    THEN [pc |-> pc + 1, effects |-> effects, outcome |-> "yielded"]
    ELSE IF body[pc] = "fail"
    THEN [pc |-> Len(body) + 1, effects |-> effects, outcome |-> "error"]
    ELSE run_body(body, pc + 1, Append(effects, body[pc]))

next(hook) == run_body(hook.body, hook.pc, <<>>)

\* What the log records of a hook's side effects.
Effects(h, hook, effects) ==
    [k \in 1..Len(effects) |->
        [hook |-> h, extension |-> hook.extension, op |-> effects[k]]]

\* run_hooks_sync from the hook at position i on.
RECURSIVE run_hooks_sync_from(_, _, _, _, _)
run_hooks_sync_from(h, hooks, i, is_exit, effects) ==
    IF i > Len(hooks)
    THEN [raised |-> "none", hooks |-> hooks, effects |-> effects]
    ELSE IF hooks[i].is_async
    THEN [raised |-> "RuntimeError_sync", hooks |-> hooks, effects |-> effects]
    ELSE LET r == next(hooks[i])
             hooks2 == [hooks EXCEPT ![i].pc = r.pc, ![i].advanced = @ + 1]
             effects2 == effects \o Effects(h, hooks[i], r.effects)
         IN IF r.outcome = "error"
            THEN [raised |-> "HookError", hooks |-> hooks2, effects |-> effects2]
            ELSE IF r.outcome = "stop" /\ ~is_exit
            THEN [raised |-> "StopIteration", hooks |-> hooks2,
                  effects |-> effects2]
            ELSE Only({ run_hooks_sync_from(a1, a2, a3, a4, a5) :
                         a1 \in {h},
                         a2 \in {hooks2},
                         a3 \in {i + 1},
                         a4 \in {is_exit},
                         a5 \in {effects2} })

\* run_hooks_async from the hook at position i on.  A StopIteration that
\* leaves the coroutine is turned into a RuntimeError by the interpreter.
RECURSIVE run_hooks_async_from(_, _, _, _, _)
run_hooks_async_from(h, hooks, i, is_exit, effects) ==
    IF i > Len(hooks)
    THEN [raised |-> "none", hooks |-> hooks, effects |-> effects]
    ELSE LET r == next(hooks[i])
             hooks2 == [hooks EXCEPT ![i].pc = r.pc, ![i].advanced = @ + 1]
             effects2 == effects \o Effects(h, hooks[i], r.effects)
         IN IF r.outcome = "error"
            THEN [raised |-> "HookError", hooks |-> hooks2, effects |-> effects2]
            ELSE IF r.outcome = "stop" /\ ~is_exit
            THEN [raised |-> IF hooks[i].is_async THEN "StopAsyncIteration"
                             ELSE "RuntimeError_StopIteration",
                  hooks |-> hooks2, effects |-> effects2]
            ELSE Only({ run_hooks_async_from(a1, a2, a3, a4, a5) :
                         a1 \in {h},
                         a2 \in {hooks2},
                         a3 \in {i + 1},
                         a4 \in {is_exit},
                         a5 \in {effects2} })

Reverse(s) == [k \in 1..Len(s) |-> s[Len(s) + 1 - k]]

\* run_hooks_sync unwinding the hooks as a stack: on exit, last registered first.
run_hooks_sync_stack(h, hooks, is_exit) ==
    IF is_exit
    THEN LET r == run_hooks_sync_from(h, Reverse(hooks), 1, TRUE, <<>>)
         IN [r EXCEPT !.hooks = Reverse(r.hooks)]
    ELSE run_hooks_sync_from(h, hooks, 1, FALSE, <<>>)

\* run_hooks_sync without the is_async test: every hook is advanced.
run_hooks_sync_unchecked(h, hooks, is_exit) ==
    LET r == run_hooks_async_from(h, hooks, 1, is_exit, <<>>)
    IN [r EXCEPT !.raised = IF @ = "none" THEN "none" ELSE "StopIteration"]

run_hooks_sync(h, hooks, is_exit) ==
    Only({ run_hooks_sync_from(a1, a2, a3, a4, a5) :
            a1 \in {h},
            a2 \in {hooks},
            a3 \in {1},
            a4 \in {is_exit},
            a5 \in {<<>>} })

\* run_hooks_async refusing the suspend-capable wrappers as run_hooks_sync does.
run_hooks_async_blocking_only(h, hooks, is_exit) ==
    run_hooks_sync_from(h, hooks, 1, is_exit, <<>>)

run_hooks_async(h, hooks, is_exit) ==
    Only({ run_hooks_async_from(a1, a2, a3, a4, a5) :
            a1 \in {h},
            a2 \in {hooks},
            a3 \in {1},
            a4 \in {is_exit},
            a5 \in {<<>>} })

\* enter releasing, when it fails, the wrappers it has advanced: their after
\* steps run before the failure propagates.
enter_releasing_on_failure(m, h, hooks) ==
    LET r == IF m = "sync" THEN run_hooks_sync(h, hooks, FALSE)
             ELSE run_hooks_async(h, hooks, FALSE)
        x == run_hooks_async(h, SelectSeq(r.hooks, LAMBDA w : w.advanced = 1), TRUE)
    IN IF r.raised = "none" THEN r
       ELSE [r EXCEPT !.effects = @ \o x.effects]

\* enter suppressing the completion signals as exit does.
enter_suppressing(m, h, hooks) ==
    IF m = "sync" THEN run_hooks_sync(h, hooks, TRUE)
    ELSE run_hooks_async(h, hooks, TRUE)

\* __enter__ / __aenter__ and __exit__ / __aexit__, by the runner's mode.
enter(m, h, hooks) ==
    IF m = "sync" THEN run_hooks_sync(h, hooks, FALSE)
    ELSE run_hooks_async(h, hooks, FALSE)

\* exit without the suppression of the completion signals.
exit_without_suppress(m, h, hooks) ==
    IF m = "sync" THEN run_hooks_sync(h, hooks, FALSE)
    ELSE run_hooks_async(h, hooks, FALSE)

\* exit making its advance of every wrapper twice.
exit_advancing_twice(m, h, hooks) ==
    IF m = "sync"
    THEN run_hooks_sync(h, run_hooks_sync(h, hooks, TRUE).hooks, TRUE)
    ELSE run_hooks_async(h, run_hooks_async(h, hooks, TRUE).hooks, TRUE)

\* exit with every failure of an after step suppressed.
exit_suppressing_failures(m, h, hooks) ==
    IF m = "sync"
    THEN [run_hooks_sync(h, hooks, TRUE) EXCEPT !.raised = "none"]
    ELSE [run_hooks_async(h, hooks, TRUE) EXCEPT !.raised = "none"]

exit(m, h, hooks) ==
    IF m = "sync" THEN run_hooks_sync(h, hooks, TRUE)
    ELSE run_hooks_async(h, hooks, TRUE)

----------------------------------------------------------------------------
(* Results aggregation (SchemaExtensionsRunner)                            *)

\* dict.update keeping the value already present on a collision.
update_keeping(d, e) ==
    [k \in DOMAIN d \cup DOMAIN e |-> IF k \in DOMAIN d THEN d[k] ELSE e[k]]

\* dict.update: the keys of e are added to d, overwriting.
update(d, e) ==
    [k \in DOMAIN d \cup DOMAIN e |-> IF k \in DOMAIN e THEN e[k] ELSE d[k]]

\* The ExecutionContext as an operation starts.
NewContext == [extensions_results |-> <<>>, graphql_document |-> "none"]

\* _implments_get_rseults taking every extension for one that implements
\* get_results.
_implments_get_rseults_always(cls) == TRUE

_implments_get_rseults(cls) == cls.get_results.shape # "default"

\* The calls of get_results the loop of an aggregation makes from position i
\* on: the blocking one (sync) stops at a coroutine function, which it does
\* not call.
RECURSIVE get_results_calls_from(_, _, _, _)
get_results_calls_from(exts, i, sync, calls) ==
    IF i > Len(exts)
    THEN calls
    ELSE IF _implments_get_rseults(exts[i])
    THEN IF sync /\ iscoroutinefunction(exts[i].get_results)
         THEN calls
         ELSE get_results_calls_from(
                  exts, i + 1, sync,
                  Append(calls, [hook |-> "get_results", extension |-> i,
                                 op |-> "call"]))
    ELSE get_results_calls_from(exts, i + 1, sync, calls)

\* get_extensions_results_sync: the loop from position i on.
RECURSIVE get_extensions_results_sync_from(_, _, _)
get_extensions_results_sync_from(exts, i, data) ==
    IF i > Len(exts)
    THEN [raised |-> "none", data |-> data]
    ELSE IF _implments_get_rseults(exts[i])
    THEN IF iscoroutinefunction(exts[i].get_results)
         THEN [raised |-> "RuntimeError_async_get_results", data |-> <<>>]
         ELSE get_extensions_results_sync_from(
                  exts, i + 1, update(data, exts[i].get_results.returns))
    ELSE get_extensions_results_sync_from(exts, i + 1, data)

\* The loop of get_extensions_results from position i on.
RECURSIVE gather_results_from(_, _, _)
gather_results_from(exts, i, data) ==
    IF i > Len(exts)
    THEN data
    ELSE IF _implments_get_rseults(exts[i])
    THEN gather_results_from(exts, i + 1, update(data, exts[i].get_results.returns))
    ELSE gather_results_from(exts, i + 1, data)

\* get_extensions_results_sync without the test on coroutine functions.
get_extensions_results_sync_unchecked(exts) ==
    [raised |-> "none", data |-> gather_results_from(exts, 1, <<>>)]

get_extensions_results_sync(exts) == get_extensions_results_sync_from(exts, 1, <<>>)

\* get_extensions_results with the context's mapping laid down first.
get_extensions_results_context_first(exts, c) ==
    gather_results_from(exts, 1, update(<<>>, c.extensions_results))

get_extensions_results(exts, c) ==
    update(gather_results_from(exts, 1, <<>>), c.extensions_results)

NoResults == [called |-> "none", raised |-> "none", data |-> <<>>]

\* The classes and context mappings the aggregation runs are drawn from.
ResultsClasses ==
    { Extension,
      [Extension EXCEPT !.get_results = GetResults([a |-> 1])],
      [Extension EXCEPT !.get_results = GetResults([a |-> 2, b |-> 2])],
      [Extension EXCEPT !.get_results = GetResults(<<>>)],
      [Extension EXCEPT !.get_results = AsyncGetResults([b |-> 3])] }

ContextMappings == { <<>>, [a |-> 9], [c |-> 9], [a |-> 9, b |-> 9] }

ResultsInit ==
    /\ extensions \in SeqsUpTo(ResultsClasses, MaxExt)
    /\ ctx \in { [NewContext EXCEPT !.extensions_results = d] : d \in ContextMappings }
    /\ results = NoResults
    /\ phase = "on_operation"
    /\ mode = "sync"
    /\ scope = NoScope
    /\ log = <<>>
    /\ warnings = <<>>
    /\ NoSubscription

GetExtensionsResultsSync ==
    /\ results.called = "none"
    /\ LET r == get_extensions_results_sync(extensions)
       IN results' = [called |-> "sync", raised |-> r.raised, data |-> r.data]
    /\ log' = get_results_calls_from(extensions, 1, TRUE, <<>>)
    /\ UNCHANGED <<extensions, scopeVars, warnings, ctx, subVars>>

GetExtensionsResults ==
    /\ results.called = "none"
    /\ results' = [called |-> "async", raised |-> "none",
                   data |-> get_extensions_results(extensions, ctx)]
    /\ log' = get_results_calls_from(extensions, 1, FALSE, <<>>)
    /\ UNCHANGED <<extensions, scopeVars, warnings, ctx, subVars>>

ResultsNext == GetExtensionsResultsSync \/ GetExtensionsResults

SpecResults == ResultsInit /\ [][ResultsNext]_vars

----------------------------------------------------------------------------
(* The subscription driver: _subscribe and subscribe (schema/subscribe.py) *)
(*                                                                         *)
(* m is the state an advance of the generator works on: [sub, log,         *)
(* warnings, ctx, emitted].  Each operator below runs the code from one    *)
(* point up to the next yield (sub.pc names it), the generator's return    *)
(* (sub.pc = "done") or an exception leaving it (sub.raised).              *)

\* Longest script of the external event iterator.
MaxEvents == 3

Mark(op) == [hook |-> "driver", extension |-> 0, op |-> op]

\* An extension instance's hooks as they behave in the executing scope being
\* opened: if the scope is the one the fuse names, the steps marked "risky"
\* fail and the steps marked "note" write a key into the per-iteration
\* extensions-results mapping of the execution context; otherwise they do
\* nothing.
Arm(body, armed) ==
    IF armed
    THEN [k \in 1..Len(body) |->
             IF body[k] = "risky" THEN "fail"
             ELSE IF body[k] = "note" THEN "write" ELSE body[k]]
    ELSE SelectSeq(body, LAMBDA o : o \notin {"risky", "note"})

\* What a hook's steps leave in the log, and in the execution context: a
\* "write" step sets the key `noted` of ctx.extensions_results.
Logged(effects) == SelectSeq(effects, LAMBDA e : e.op # "write")
Noted(c, effects) ==
    IF \E k \in 1..Len(effects) : effects[k].op = "write"
    THEN [c EXCEPT !.extensions_results = update(@, [noted |-> 1])]
    ELSE c

Instances(armed) ==
    [i \in 1..Len(extensions) |->
        [extensions[i] EXCEPT !.on_execute.body = Arm(@, armed)]]

PreExecutionError(error) ==
    [kind |-> "PreExecutionError", data |-> 0, errors |-> <<error>>,
     extensions |-> <<>>]
ExecutionResult(data, errors) ==
    [kind |-> "ExecutionResult", data |-> data, errors |-> errors,
     extensions |-> <<>>]

\* _handle_execution_result: the extensions' results are aggregated into the
\* result, which keeps its kind.
_handle_execution_result(m, result) ==
    [m |-> [m EXCEPT !.log = Append(@, Mark("get_results"))],
     result |-> [result EXCEPT
                   !.extensions = get_extensions_results(extensions, m.ctx)]]

\* `yield await _handle_execution_result(...)`, suspending at pc.
yield_result(m, result, pc) ==
    LET h == _handle_execution_result(m, result)
    IN [h.m EXCEPT !.emitted = Append(@, h.result),
                   !.log = Append(@, Mark("emit")),
                   !.sub.pc = pc]

\* An exception leaves the generator, which is then finished.
raise(m, error) == [m EXCEPT !.sub.pc = "done", !.sub.raised = error]

\* Leaving `async with extensions_runner.operation()`: __aexit__ has run with
\* outcome r; the generator returns, or raises what was propagating (error)
\* or what the exit raised.
operation_exited(m, error, r) ==
    [m EXCEPT !.log = (@ \o r.effects) \o <<Mark("op_exit")>>,
              !.sub.op_hooks = r.hooks,
              !.sub.pc = "done",
              !.sub.raised = IF r.raised # "none" THEN r.raised ELSE error]

operation_exit(m, error) ==
    Only({ operation_exited(a1, a2, a3) :
            a1 \in {m},
            a2 \in {error},
            a3 \in {run_hooks_async("on_operation", m.sub.op_hooks, TRUE)} })

\* `async with extensions_runner.executing()`: the manager is constructed
\* (built) and entered (with outcome r).
executing_entered(m, r) ==
    [m |-> [m EXCEPT !.log = IF r.raised = "none"
                              THEN Append(@ \o Logged(r.effects), Mark("exec_enter"))
                              ELSE @ \o Logged(r.effects),
                     !.ctx = Noted(@, r.effects)],
     hooks |-> r.hooks, raised |-> r.raised]

executing_built(m, built) ==
    IF built.raised # "none"
    THEN [m |-> m, hooks |-> <<>>, raised |-> built.raised]
    ELSE Only({ executing_entered(a1, a2) :
                 a1 \in {[m EXCEPT !.warnings = @ \o built.warned]},
                 a2 \in {run_hooks_async("on_execute", built.hooks, FALSE)} })

executing_enter(m) ==
    Only({ executing_built(a1, a2) :
            a1 \in {[m EXCEPT !.sub.scopes = @ + 1]},
            a2 \in {ContextManager("on_execute",
                                   Instances(fuse = m.sub.scopes + 1))} })

\* __aexit__ of the executing manager, with outcome r.
executing_exited(m, r) ==
    [m |-> [m EXCEPT !.log = (@ \o Logged(r.effects)) \o <<Mark("exec_exit")>>,
                     !.ctx = Noted(@, r.effects)],
     raised |-> r.raised]

executing_exit(m, hooks) ==
    Only({ executing_exited(a1, a2) :
            a1 \in {m},
            a2 \in {run_hooks_async("on_execute", hooks, TRUE)} })

\* except_handler going on with the event loop after its result.
except_handler_resumes(m, error) ==
    yield_result(m, ExecutionResult(0, <<error>>), "y_event")

\* except_handler outside the operation scope: the scope is left before the
\* handler's result is yielded.
except_handler_outside_operation(m, error) ==
    [yield_result(operation_exit(m, "none"), ExecutionResult(0, <<error>>),
                  "y_except")
        EXCEPT !.sub.raised = "none"]

\* The handler `except Exception as exc` of the try block.
except_handler(m, error) ==
    yield_result(m, ExecutionResult(0, <<error>>), "y_except")

\* pull with `running = False` forgotten in the handler of a failure.
pull_keeps_running(m) ==
    LET k == m.sub.pulls + 1
        outcome == IF k <= Len(source.events) THEN source.events[k] ELSE "stop"
    IN [m |-> [m EXCEPT !.sub.pulls = k,
                        !.log = Append(@, Mark("pull")),
                        !.sub.aiterator = IF outcome = "stop" THEN "exhausted" ELSE @],
        outcome |-> outcome,
        origin_result |-> IF outcome = "raise"
                          THEN ExecutionResult(0, <<"PullError">>)
                          ELSE ExecutionResult(k, <<>>)]

\* `await aiterator.__anext__()` and its handlers: the k-th pull gives the
\* k-th entry of the script, or the exhaustion after it.
pull(m) ==
    LET k == m.sub.pulls + 1
        outcome == IF k <= Len(source.events) THEN source.events[k] ELSE "stop"
    IN [m |-> [m EXCEPT !.sub.pulls = k,
                        !.log = Append(@, Mark("pull")),
                        !.sub.aiterator = IF outcome = "stop" THEN "exhausted" ELSE @,
                        !.sub.running = IF outcome = "raise" THEN FALSE ELSE @],
        outcome |-> outcome,
        origin_result |-> IF outcome = "raise"
                          THEN ExecutionResult(0, <<"PullError">>)
                          ELSE ExecutionResult(k, <<>>)]

\* event_exited letting the failure of the pull leave the generator.
event_exited_raises_pull_failure(p, x) ==
    IF x.raised # "none" THEN except_handler(x.m, x.raised)
    ELSE IF p.outcome = "stop" THEN operation_exit(x.m, "none")
    ELSE IF p.outcome = "raise" THEN operation_exit(x.m, "PullError")
    ELSE yield_result(x.m, p.origin_result, "y_event")

\* event_exited emitting one more result once the operation scope is left at
\* the exhaustion of the events.
event_exited_emits_after_close(p, x) ==
    IF x.raised # "none" THEN except_handler(x.m, x.raised)
    ELSE IF p.outcome = "stop"
    THEN [yield_result(operation_exit(x.m, "none"), p.origin_result, "y_except")
             EXCEPT !.sub.raised = "none"]
    ELSE yield_result(x.m, p.origin_result, "y_event")

\* event_exited emitting the result of the pulled event before the result
\* made from the failure of an after step.
event_exited_emits_then_fails(p, x) ==
    IF x.raised # "none"
    THEN (IF p.outcome = "event"
          THEN except_handler(yield_result(x.m, p.origin_result, "y_event"),
                              x.raised)
          ELSE except_handler(x.m, x.raised))
    ELSE IF p.outcome = "stop" THEN operation_exit(x.m, "none")
    ELSE yield_result(x.m, p.origin_result, "y_event")

\* One turn of `while running`: after the executing scope is left (x).
event_exited(p, x) ==
    IF x.raised # "none" THEN except_handler(x.m, x.raised)
    ELSE IF p.outcome = "stop" THEN operation_exit(x.m, "none")
    ELSE yield_result(x.m, p.origin_result, "y_event")

\* event_pulled yielding the result inside the executing scope, before its exit.
event_pulled_yield_inside(hooks, p) ==
    IF p.outcome = "stop"
    THEN event_exited(p, executing_exit(p.m, hooks))
    ELSE executing_exit(yield_result(p.m, p.origin_result, "y_event"), hooks).m

\* event_pulled yielding the result of a failed pull in the handler of the
\* failure, inside the executing scope.
event_pulled_failure_inside(hooks, p) ==
    IF p.outcome = "raise"
    THEN executing_exit(yield_result(p.m, p.origin_result, "y_event"), hooks).m
    ELSE event_exited(p, executing_exit(p.m, hooks))

\* ... after the pull (p), inside the executing scope.
event_pulled(hooks, p) == Only({ event_exited(a1, a2) :
                                  a1 \in {p},
                                  a2 \in {executing_exit(p.m, hooks)} })

\* ... after the executing scope is entered (e).
event_entered(e) ==
    IF e.raised # "none" THEN except_handler(e.m, e.raised)
    ELSE Only({ event_pulled(a1, a2) :
                 a1 \in {e.hooks},
                 a2 \in {pull(e.m)} })

\* event_loop finding the exhaustion of the events without opening an
\* executing scope for the pull.
event_loop_peeking(m) ==
    IF ~m.sub.running
    THEN operation_exit(m, "none")
    ELSE IF m.sub.pulls >= Len(source.events)
    THEN operation_exit(pull(m).m, "none")
    ELSE event_entered(executing_enter([m EXCEPT !.ctx.extensions_results = <<>>]))

\* event_loop without the reset of the per-iteration mapping.
event_loop_without_reset(m) ==
    IF ~m.sub.running
    THEN operation_exit(m, "none")
    ELSE event_entered(executing_enter(m))

\* One turn of `while running`, from its test to the yield of the event's
\* result.
event_loop(m) ==
    IF ~m.sub.running
    THEN operation_exit(m, "none")
    ELSE Only({ event_entered(a1) :
                 a1 \in {executing_enter([m EXCEPT !.ctx.extensions_results = <<>>])} })

\* subscribe_exited taking whatever the subscribe call returned for an
\* iterator.
subscribe_exited_always_iterates(asserted, x) ==
    IF x.raised # "none" THEN except_handler(x.m, x.raised)
    ELSE IF ~asserted THEN except_handler(x.m, "AssertionError")
    ELSE event_loop([x.m EXCEPT !.sub.aiterator = "open", !.sub.running = TRUE])

\* The try block: after the executing scope of the subscribe call is left
\* (x); asserted tells whether the assertion on the document held.
subscribe_exited(asserted, x) ==
    IF x.raised # "none" THEN except_handler(x.m, x.raised)
    ELSE IF ~asserted THEN except_handler(x.m, "AssertionError")
    ELSE IF source.subscribe = "result"
    THEN yield_result(x.m, PreExecutionError("ImmediateError"), "y_immediate")
    ELSE event_loop([x.m EXCEPT !.sub.aiterator = "open", !.sub.running = TRUE])

\* subscribe_entered going on to the event loop inside the executing scope
\* of the subscribe call.
subscribe_entered_keeps_scope(e) ==
    IF e.raised # "none" THEN except_handler(e.m, e.raised)
    ELSE IF e.m.ctx.graphql_document = "none"
    THEN subscribe_exited(FALSE, executing_exit(e.m, e.hooks))
    ELSE subscribe_exited(
             TRUE,
             [m |-> [e.m EXCEPT !.log = Append(@, Mark("subscribe"))],
              raised |-> "none"])

\* ... after that scope is entered (e): the assertion, then the external
\* subscribe call.
subscribe_entered(e) ==
    IF e.raised # "none" THEN except_handler(e.m, e.raised)
    ELSE IF e.m.ctx.graphql_document = "none"
    THEN Only({ subscribe_exited(a1, a2) :
                 a1 \in {FALSE},
                 a2 \in {executing_exit(e.m, e.hooks)} })
    ELSE Only({ subscribe_exited(a1, a2) :
                 a1 \in {TRUE},
                 a2 \in {executing_exit(
                             [e.m EXCEPT !.log = Append(@, Mark("subscribe"))],
                             e.hooks)} })

\* The try block, from its start to the first yield.
try_block(m) == Only({ subscribe_entered(a1) :
                        a1 \in {executing_enter(m)} })

\* One of the scopes _parse_and_validate_async opens (parsing, validation)
\* around an external call: after its exit (x).
external_exited(m, x) == [m |-> [m EXCEPT !.log = @ \o x.effects], raised |-> x.raised]

\* ... after its enter (r).
external_entered(m, h, call, r) ==
    IF r.raised # "none"
    THEN [m |-> [m EXCEPT !.log = @ \o r.effects], raised |-> r.raised]
    ELSE Only({ external_exited(a1, a2) :
                 a1 \in {[m EXCEPT !.log = Append(@ \o r.effects, Mark(call))]},
                 a2 \in {run_hooks_async(h, r.hooks, TRUE)} })

\* ... after its manager is constructed (built).
external_built(m, h, call, built) ==
    IF built.raised # "none"
    THEN [m |-> m, raised |-> built.raised]
    ELSE Only({ external_entered(a1, a2, a3, a4) :
                 a1 \in {[m EXCEPT !.warnings = @ \o built.warned]},
                 a2 \in {h},
                 a3 \in {call},
                 a4 \in {run_hooks_async(h, built.hooks, FALSE)} })

external_scope(m, h, call) ==
    Only({ external_built(a1, a2, a3, a4) :
            a1 \in {m},
            a2 \in {h},
            a3 \in {call},
            a4 \in {ContextManager(h, Instances(FALSE))} })

\* _parse_and_validate_async: the parsing scope around the parse, then the
\* validation scope around the validation; a parse or validation error is
\* returned, with no document set; a hook's failure propagates.
validated(v) == [m |-> v.m, raised |-> v.raised, error |-> FALSE]

parsed(p) ==
    IF p.raised # "none" THEN [m |-> p.m, raised |-> p.raised, error |-> FALSE]
    ELSE IF source.parse = "error"
    THEN [m |-> p.m, raised |-> "none", error |-> TRUE]
    ELSE Only({ validated(a1) :
                 a1 \in {external_scope(
                             [p.m EXCEPT !.ctx.graphql_document = "document"],
                             "on_validate", "validate")} })

_parse_and_validate_async(m) ==
    Only({ parsed(a1) :
            a1 \in {external_scope(m, "on_parse", "parse")} })

\* after_parse_and_validate with the call inside the try block: a failure is
\* converted into a result by the handler.
after_parse_and_validate_converting(pv) ==
    IF pv.raised # "none" THEN except_handler(pv.m, pv.raised)
    ELSE IF pv.error
    THEN yield_result([pv.m EXCEPT !.log = Append(@, Mark("get_results"))],
                      PreExecutionError("ParseError"), "y_initial_error")
    ELSE try_block(pv.m)

\* _subscribe from its start: after _parse_and_validate_async (pv).
after_parse_and_validate(pv) ==
    IF pv.raised # "none" THEN operation_exit(pv.m, pv.raised)
    ELSE IF pv.error
    THEN yield_result([pv.m EXCEPT !.log = Append(@, Mark("get_results"))],
                      PreExecutionError("ParseError"), "y_initial_error")
    ELSE try_block(pv.m)

\* ... after the operation scope is entered (r).
operation_entered(m, r) ==
    IF r.raised # "none"
    THEN raise([m EXCEPT !.log = @ \o r.effects, !.sub.op_hooks = r.hooks], r.raised)
    ELSE Only({ after_parse_and_validate(a1) :
                 a1 \in {_parse_and_validate_async(
                             [m EXCEPT !.log = Append(@ \o r.effects, Mark("op_enter")),
                                       !.sub.op_hooks = r.hooks])} })

\* ... after the operation manager is constructed (built).
operation_built(m, built) ==
    IF built.raised # "none" THEN raise(m, built.raised)
    ELSE Only({ operation_entered(a1, a2) :
                 a1 \in {[m EXCEPT !.warnings = @ \o built.warned]},
                 a2 \in {run_hooks_async("on_operation", built.hooks, FALSE)} })

\* The first advance of _subscribe: from its start to the first yield.
_subscribe_start(m) ==
    Only({ operation_built(a1, a2) :
            a1 \in {m},
            a2 \in {ContextManager("on_operation", Instances(FALSE))} })

\* _subscribe_anext returning, after the handler's result, without leaving
\* the operation scope.
_subscribe_anext_abandoning_scope(m) ==
    CASE m.sub.pc = "unstarted" -> _subscribe_start(m)
      [] m.sub.pc = "y_initial_error" -> try_block(m)
      [] m.sub.pc = "y_immediate" -> operation_exit(m, "none")
      [] m.sub.pc = "y_event" -> event_loop(m)
      [] m.sub.pc = "y_except" -> raise(m, "none")
      [] m.sub.pc = "done" -> [m EXCEPT !.sub.raised = "none"]

\* asyncgen.__anext__(): the generator runs from where it is suspended.
_subscribe_anext(m) ==
    CASE m.sub.pc = "unstarted" -> _subscribe_start(m)
      [] m.sub.pc = "y_initial_error" -> try_block(m)
      [] m.sub.pc = "y_immediate" -> operation_exit(m, "none")
      [] m.sub.pc = "y_event" -> event_loop(m)
      [] m.sub.pc = "y_except" -> operation_exit(m, "none")
      [] m.sub.pc = "done" -> [m EXCEPT !.sub.raised = "none"]

\* asyncgen.aclose(): GeneratorExit is thrown in at the yield the generator is
\* suspended at; no handler of _subscribe catches it, so only the operation
\* scope is left.
_subscribe_aclose(m) ==
    IF m.sub.pc \in {"unstarted", "done"}
    THEN [m EXCEPT !.sub.pc = "done", !.sub.raised = "none"]
    ELSE operation_exit(m, "none")

----------------------------------------------------------------------------
(* One phase scope: `with runner.<phase>(): body`, blocking or             *)
(* suspend-capable.                                                        *)

\* The classes an extension list of the scope runs is drawn from: for the
\* phase with hook name h, every authoring style.
ScopeClasses(h) ==
    LET s == LEGACY_ENTER(h)
        e == LEGACY_EXIT(h)
    IN { Extension,
         [Extension EXCEPT ![h] = Gen(<<"start", "yield", "end">>)],
         [Extension EXCEPT ![h] = AsyncGen(<<"start", "yield", "end">>)],
         [Extension EXCEPT ![h] = Func(<<"start">>)],
         [Extension EXCEPT ![h] = Coro(<<"start">>)],
         [Extension EXCEPT ![s] = Func(<<"start">>), ![e] = Func(<<"end">>)],
         [Extension EXCEPT ![s] = Func(<<"start">>)],
         [Extension EXCEPT ![e] = Func(<<"end">>)],
         [Extension EXCEPT ![s] = Coro(<<"start">>), ![e] = Func(<<"end">>)],
         [Extension EXCEPT ![s] = Func(<<"start">>), ![e] = Coro(<<"end">>)],
         [Extension EXCEPT ![s] = Func(<<"start">>),
                           ![h] = Gen(<<"start", "yield", "end">>)],
         [Extension EXCEPT ![h] = Gen(<<"fail", "yield", "end">>)],
         [Extension EXCEPT ![h] = Gen(<<"start", "yield", "fail">>)],
         [Extension EXCEPT ![h] = Gen(<<"start">>)],
         [Extension EXCEPT ![h] = AsyncGen(<<"start">>)],
         [Extension EXCEPT ![h] = Gen(<<"start", "yield", "end", "yield", "end">>)] }

ScopeInit ==
    /\ phase \in HookNames
    /\ mode \in {"sync", "async"}
    /\ extensions \in SeqsUpTo(ScopeClasses(phase), MaxExt)
    /\ scope = NoScope
    /\ log = <<>>
    /\ warnings = <<>>
    /\ ctx = NewContext
    /\ results = NoResults
    /\ NoSubscription

\* runner.<phase>(): the context manager is constructed.
Construct ==
    /\ scope.stage = "new"
    /\ LET r == ContextManager(phase, extensions)
       IN /\ scope' = [stage |-> "built",
                       hooks |-> IF r.raised = "none" THEN r.hooks ELSE <<>>,
                       raised |-> r.raised]
          /\ warnings' = warnings \o r.warned
    /\ UNCHANGED <<extensions, phase, mode, log, ctx, results, subVars>>

\* __enter__ / __aenter__.
Enter ==
    /\ scope.stage = "built"
    /\ scope.raised = "none"
    /\ LET r == enter(mode, phase, scope.hooks)
       IN /\ scope' = [stage |-> "entered", hooks |-> r.hooks, raised |-> r.raised]
          /\ log' = log \o r.effects
    /\ UNCHANGED <<extensions, phase, mode, warnings, ctx, results, subVars>>

\* The body of the with statement: it completes or fails.
Body ==
    /\ scope.stage = "entered"
    /\ scope.raised = "none"
    /\ \E ok \in BOOLEAN :
          scope' = [scope EXCEPT !.stage = "body_done",
                                 !.raised = IF ok THEN "none" ELSE "BodyError"]
    /\ log' = Append(log, BodyRan)
    /\ UNCHANGED <<extensions, phase, mode, warnings, ctx, results, subVars>>

\* Exit with the after steps run only when the body completed.
Exit_only_after_success ==
    /\ scope.stage = "body_done"
    /\ LET r == IF scope.raised = "none" THEN exit(mode, phase, scope.hooks)
                ELSE [raised |-> "none", hooks |-> scope.hooks, effects |-> <<>>]
       IN /\ scope' = [stage |-> "exited", hooks |-> r.hooks,
                       raised |-> IF r.raised # "none" THEN r.raised
                                  ELSE scope.raised]
          /\ log' = log \o r.effects
    /\ UNCHANGED <<extensions, phase, mode, warnings, ctx, results, subVars>>

\* __exit__ / __aexit__: returns None, so a failure of the body propagates
\* unless the exit itself fails.
Exit ==
    /\ scope.stage = "body_done"
    /\ LET r == exit(mode, phase, scope.hooks)
       IN /\ scope' = [stage |-> "exited", hooks |-> r.hooks,
                       raised |-> IF r.raised # "none" THEN r.raised
                                  ELSE scope.raised]
          /\ log' = log \o r.effects
    /\ UNCHANGED <<extensions, phase, mode, warnings, ctx, results, subVars>>

ScopeNext == Construct \/ Enter \/ Body \/ Exit

SpecScope == ScopeInit /\ [][ScopeNext]_vars

----------------------------------------------------------------------------
(* A subscription: the consumer calls subscribe() and iterates what it     *)
(* returns, or iterates _subscribe() itself.                               *)

\* The classes an extension list of a subscription is drawn from.
SubClasses ==
    { Extension,
      [Extension EXCEPT !.on_operation = Gen(<<"start", "yield", "end">>),
                        !.on_execute = Gen(<<"start", "yield", "end">>)],
      [Extension EXCEPT !.on_operation = AsyncGen(<<"start", "yield", "end">>),
                        !.on_executing_start = Func(<<"start">>),
                        !.on_executing_end = Func(<<"end">>)],
      [Extension EXCEPT !.on_execute = Gen(<<"risky", "start", "yield", "end">>)],
      [Extension EXCEPT !.on_execute = Gen(<<"start", "yield", "risky", "end">>)],
      [Extension EXCEPT !.on_operation = Gen(<<"start", "yield", "end">>),
                        !.on_executing_start = Func(<<"start">>),
                        !.on_execute = Gen(<<"start", "yield", "end">>)],
      [Extension EXCEPT !.on_parse = Gen(<<"fail", "yield">>)],
      [Extension EXCEPT !.on_execute = Gen(<<"start", "note", "yield", "end">>)] }

IsRisky(cls) == \E k \in 1..Len(cls.on_execute.body) : cls.on_execute.body[k] = "risky"
Notes(cls) == \E k \in 1..Len(cls.on_execute.body) : cls.on_execute.body[k] = "note"

\* The scripts of the external event iterator: events, then a failure or the
\* clean exhaustion.
EventScripts ==
    UNION { { [k \in 1..n |-> "event"],
              [k \in 1..(n + 1) |-> IF k <= n THEN "event" ELSE "raise"] } :
            n \in 0..(MaxEvents - 1) }
    \cup { [k \in 1..MaxEvents |-> "event"] }

Sources ==
    { [parse |-> "error", subscribe |-> "iterator", events |-> <<>>],
      [parse |-> "ok", subscribe |-> "result", events |-> <<>>] }
    \cup { [parse |-> "ok", subscribe |-> "iterator", events |-> ev] :
           ev \in EventScripts }

SubInit ==
    /\ extensions \in SeqsUpTo(SubClasses, MaxExt)
    /\ source \in Sources
    /\ fuse \in IF \E i \in 1..Len(extensions) :
                        IsRisky(extensions[i]) \/ Notes(extensions[i])
                THEN 1..(MaxEvents + 2) ELSE {0}
    /\ sub = NewDriver
    /\ emitted = <<>>
    /\ consumer \in { [NoConsumer EXCEPT !.kind = k] : k \in {"subscribe", "direct"} }
    /\ ctx = NewContext
    /\ log = <<>>
    /\ warnings = <<>>
    /\ results = NoResults
    /\ phase = "on_operation"
    /\ mode = "async"
    /\ scope = NoScope

Machine ==
    [sub |-> sub, log |-> log, warnings |-> warnings, ctx |-> ctx,
     emitted |-> emitted]

Commit(m) ==
    /\ sub' = m.sub
    /\ log' = m.log
    /\ warnings' = m.warnings
    /\ ctx' = m.ctx
    /\ emitted' = m.emitted

Last(s) == s[Len(s)]

\* Subscribe returning a PreExecutionError without closing the generator.
Subscribe_without_close ==
    /\ consumer.kind = "subscribe"
    /\ consumer.call = "none"
    /\ LET m1 == _subscribe_anext(Machine)
       IN /\ Commit(m1)
          /\ consumer' =
               IF m1.sub.pc = "done"
               THEN [consumer EXCEPT
                       !.call = "raised",
                       !.raised = IF m1.sub.raised # "none" THEN m1.sub.raised
                                  ELSE "StopAsyncIteration"]
               ELSE IF Last(m1.emitted).kind = "PreExecutionError"
               THEN [consumer EXCEPT !.call = "returned_error",
                                     !.delivered = <<Last(m1.emitted)>>]
               ELSE [consumer EXCEPT !.call = "returned_stream",
                                     !.wrapper = "unstarted"]
    /\ UNCHANGED <<extensions, scopeVars, results, source, fuse>>

\* Subscribe returning an empty stream when the generator finishes without a
\* first value.
Subscribe_returning_empty_stream ==
    /\ consumer.kind = "subscribe"
    /\ consumer.call = "none"
    /\ LET m1 == _subscribe_anext(Machine)
           m2 == _subscribe_aclose(m1)
       IN IF m1.sub.pc = "done"
          THEN /\ Commit(m1)
               /\ consumer' =
                    IF m1.sub.raised # "none"
                    THEN [consumer EXCEPT !.call = "raised",
                                          !.raised = m1.sub.raised]
                    ELSE [consumer EXCEPT !.call = "returned_stream",
                                          !.wrapper = "done"]
          ELSE IF Last(m1.emitted).kind = "PreExecutionError"
          THEN /\ Commit(m2)
               /\ consumer' = IF m2.sub.raised # "none"
                              THEN [consumer EXCEPT !.call = "raised",
                                                    !.raised = m2.sub.raised]
                              ELSE [consumer EXCEPT
                                      !.call = "returned_error",
                                      !.delivered = <<Last(m1.emitted)>>]
          ELSE /\ Commit(m1)
               /\ consumer' = [consumer EXCEPT !.call = "returned_stream",
                                               !.wrapper = "unstarted"]
    /\ UNCHANGED <<extensions, scopeVars, results, source, fuse>>

\* subscribe(): the first value is awaited; a PreExecutionError closes the
\* generator and is returned, anything else is handed to _wrapper().
Subscribe ==
    /\ consumer.kind = "subscribe"
    /\ consumer.call = "none"
    /\ \E m1 \in {_subscribe_anext(Machine)} : \E m2 \in {_subscribe_aclose(m1)} :
          IF m1.sub.pc = "done"
          THEN /\ Commit(m1)
               /\ consumer' = [consumer EXCEPT
                     !.call = "raised",
                     !.raised = IF m1.sub.raised # "none" THEN m1.sub.raised
                                ELSE "StopAsyncIteration"]
          ELSE IF Last(m1.emitted).kind = "PreExecutionError"
          THEN /\ Commit(m2)
               /\ consumer' = IF m2.sub.raised # "none"
                              THEN [consumer EXCEPT !.call = "raised",
                                                    !.raised = m2.sub.raised]
                              ELSE [consumer EXCEPT
                                      !.call = "returned_error",
                                      !.delivered = <<Last(m1.emitted)>>]
          ELSE /\ Commit(m1)
               /\ consumer' = [consumer EXCEPT !.call = "returned_stream",
                                               !.wrapper = "unstarted"]
    /\ UNCHANGED <<extensions, scopeVars, results, source, fuse>>

\* _wrapper().__anext__(): `yield first`, then the results of the generator.
WrapperNext ==
    /\ consumer.call = "returned_stream"
    /\ consumer.wrapper \in {"unstarted", "y_first", "y_result"}
    /\ IF consumer.wrapper = "unstarted"
       THEN /\ consumer' = [consumer EXCEPT !.wrapper = "y_first",
                                            !.delivered = Append(@, emitted[1])]
            /\ UNCHANGED <<sub, log, warnings, ctx, emitted>>
       ELSE \E m1 \in {_subscribe_anext(Machine)} :
               /\ Commit(m1)
               /\ consumer' =
                    IF m1.sub.pc = "done"
                    THEN [consumer EXCEPT !.wrapper = "done",
                                          !.raised = m1.sub.raised]
                    ELSE [consumer EXCEPT !.wrapper = "y_result",
                                          !.delivered = Append(@, Last(m1.emitted))]
    /\ UNCHANGED <<extensions, scopeVars, results, source, fuse>>

\* _wrapper().aclose(): GeneratorExit at `yield first` or `yield result`; the
\* wrapper has no handler and does not close asyncgen.
WrapperClose ==
    /\ consumer.call = "returned_stream"
    /\ consumer.wrapper \in {"unstarted", "y_first", "y_result"}
    /\ consumer' = [consumer EXCEPT !.wrapper = "closed"]
    /\ UNCHANGED <<extensions, scopeVars, results, source, fuse, sub, log,
                   warnings, ctx, emitted>>

\* The interpreter finalizes the _subscribe generator that the closed wrapper
\* no longer refers to: the event loop's asyncgen hook runs its aclose().
FinalizeDriver ==
    /\ consumer.wrapper = "closed"
    /\ sub.pc # "done"
    /\ Commit(_subscribe_aclose(Machine))
    /\ UNCHANGED <<extensions, scopeVars, results, source, fuse, consumer>>

\* The interpreter finalizes the external event iterator once the finished
\* generator no longer refers to it.
FinalizeSource ==
    /\ sub.pc = "done"
    /\ sub.aiterator = "open"
    /\ sub' = [sub EXCEPT !.aiterator = "closed"]
    /\ UNCHANGED <<extensions, scopeVars, results, source, fuse, consumer, log,
                   warnings, ctx, emitted>>

\* The consumer of _subscribe() itself advances it.
DriverNext ==
    /\ consumer.kind = "direct"
    /\ sub.pc # "done"
    /\ \E m1 \in {_subscribe_anext(Machine)} :
          /\ Commit(m1)
          /\ consumer' =
               IF m1.sub.pc = "done"
               THEN [consumer EXCEPT !.call = "finished", !.raised = m1.sub.raised]
               ELSE [consumer EXCEPT !.call = "iterating",
                                     !.delivered = Append(@, Last(m1.emitted))]
    /\ UNCHANGED <<extensions, scopeVars, results, source, fuse>>

\* The consumer of _subscribe() itself closes it.
DriverClose ==
    /\ consumer.kind = "direct"
    /\ sub.pc # "done"
    /\ LET m1 == _subscribe_aclose(Machine)
       IN /\ Commit(m1)
          /\ consumer' = [consumer EXCEPT !.call = "closed",
                                          !.raised = m1.sub.raised]
    /\ UNCHANGED <<extensions, scopeVars, results, source, fuse>>

SubNext ==
    \/ Subscribe
    \/ WrapperNext
    \/ WrapperClose
    \/ FinalizeDriver
    \/ FinalizeSource
    \/ DriverNext
    \/ DriverClose

SpecSub == SubInit /\ [][SubNext]_vars

\* A consumer that keeps pulling and never closes: `async for` over what
\* subscribe() returned, or over _subscribe() itself.  Every call of the
\* consumer completes, so a pull that can be made is eventually made.
LiveNext ==
    \/ Subscribe
    \/ WrapperNext
    \/ DriverNext

SpecLive == SubInit /\ [][LiveNext]_vars /\ WF_vars(LiveNext)

----------------------------------------------------------------------------
(* Two subscriptions driven concurrently: each has its own ExecutionContext, *)
(* runner and extension instances (of the schema's extension classes), and   *)
(* its own consumer advancing or closing its _subscribe() generator.  The    *)
(* variables sub, log, warnings, ctx, emitted and consumer hold one value    *)
(* per operation.                                                            *)

Ops == {1, 2}

PairClasses ==
    { [Extension EXCEPT !.on_operation = Gen(<<"start", "yield", "end">>),
                        !.on_execute = Gen(<<"start", "yield", "end">>)],
      [Extension EXCEPT !.on_execute = Gen(<<"start", "yield", "risky", "end">>)],
      [Extension EXCEPT !.on_execute = Gen(<<"start", "note", "yield", "end">>)] }

PairInit ==
    /\ extensions \in SeqsUpTo(PairClasses, MaxExt)
    /\ source \in Sources
    /\ fuse \in IF \E i \in 1..Len(extensions) :
                        IsRisky(extensions[i]) \/ Notes(extensions[i])
                THEN 1..(MaxEvents + 2) ELSE {0}
    /\ sub = [o \in Ops |-> NewDriver]
    /\ emitted = [o \in Ops |-> <<>>]
    /\ consumer = [o \in Ops |-> [NoConsumer EXCEPT !.kind = "direct"]]
    /\ ctx = [o \in Ops |-> NewContext]
    /\ log = [o \in Ops |-> <<>>]
    /\ warnings = [o \in Ops |-> <<>>]
    /\ results = NoResults
    /\ phase = "on_operation"
    /\ mode = "async"
    /\ scope = NoScope

MachineOf(o) ==
    [sub |-> sub[o], log |-> log[o], warnings |-> warnings[o], ctx |-> ctx[o],
     emitted |-> emitted[o]]

\* CommitTo with one ExecutionContext shared by the operations.
CommitTo_shared_context(o, m) ==
    /\ sub' = [sub EXCEPT ![o] = m.sub]
    /\ log' = [log EXCEPT ![o] = m.log]
    /\ warnings' = [warnings EXCEPT ![o] = m.warnings]
    /\ ctx' = [p \in Ops |-> m.ctx]
    /\ emitted' = [emitted EXCEPT ![o] = m.emitted]

CommitTo(o, m) ==
    /\ sub' = [sub EXCEPT ![o] = m.sub]
    /\ log' = [log EXCEPT ![o] = m.log]
    /\ warnings' = [warnings EXCEPT ![o] = m.warnings]
    /\ ctx' = [ctx EXCEPT ![o] = m.ctx]
    /\ emitted' = [emitted EXCEPT ![o] = m.emitted]

\* The consumer of operation o advances its generator.
PairDriverNext(o) ==
    /\ sub[o].pc # "done"
    /\ CommitTo(o, _subscribe_anext(MachineOf(o)))
    /\ consumer' =
         [consumer EXCEPT ![o] =
            IF sub'[o].pc = "done"
            THEN [@ EXCEPT !.call = "finished", !.raised = sub'[o].raised]
            ELSE [@ EXCEPT !.call = "iterating",
                           !.delivered = Append(@, Last(emitted'[o]))]]
    /\ UNCHANGED <<extensions, scopeVars, results, source, fuse>>

\* The consumer of operation o closes its generator.
PairDriverClose(o) ==
    /\ sub[o].pc # "done"
    /\ CommitTo(o, _subscribe_aclose(MachineOf(o)))
    /\ consumer' = [consumer EXCEPT ![o] = [@ EXCEPT !.call = "closed",
                                                     !.raised = sub'[o].raised]]
    /\ UNCHANGED <<extensions, scopeVars, results, source, fuse>>

PairNext == \E o \in Ops : PairDriverNext(o) \/ PairDriverClose(o)

SpecPair == PairInit /\ [][PairNext]_vars

----------------------------------------------------------------------------
(* Properties of one phase scope                                           *)

ExtOf(s) == [k \in 1..Len(s) |-> s[k].extension]
Increasing(s) == \A i, j \in 1..Len(s) : i < j => s[i] < s[j]

\* The log up to the body of the scope, and after it.
BodyIndex ==
    IF \E k \in 1..Len(log) : log[k] = BodyRan
    THEN CHOOSE k \in 1..Len(log) : log[k] = BodyRan
    ELSE Len(log) + 1
BeforeLog == SubSeq(log, 1, BodyIndex - 1)
AfterLog == SubSeq(log, BodyIndex + 1, Len(log))

FirstYield(body) == CHOOSE k \in 1..Len(body) :
    body[k] = "yield" /\ \A j \in 1..(k - 1) : body[j] # "yield"
IsEffect(op) == op \in {"start", "end"}
\* The wrapper has a side effect before, and after, its first checkpoint.
HasBefore(hook) == Len(hook.body) >= 1 /\ IsEffect(hook.body[1])
HasAfter(hook) ==
    /\ \E k \in 1..Len(hook.body) : hook.body[k] = "yield"
    /\ FirstYield(hook.body) < Len(hook.body)
    /\ IsEffect(hook.body[FirstYield(hook.body) + 1])

EnterSucceeded ==
    \/ scope.stage = "entered" /\ scope.raised = "none"
    \/ scope.stage \in {"body_done", "exited"}
ExitSucceeded == scope.stage = "exited" /\ scope.raised \in {"none", "BodyError"}

\* C1: in every phase and in both runners, the wrappers are kept in
\* registration order, the before steps run in that order on enter and the
\* after steps run in the same order (not reversed) on exit.
C1_HooksRunInRegistrationOrder ==
    /\ Increasing(ExtOf(scope.hooks))
    /\ Increasing(ExtOf(BeforeLog))
    /\ Increasing(ExtOf(AfterLog))
    /\ EnterSucceeded => ExtOf(BeforeLog) = ExtOf(SelectSeq(scope.hooks, HasBefore))
    /\ ExitSucceeded => ExtOf(AfterLog) = ExtOf(SelectSeq(scope.hooks, HasAfter))

C1_Witness ==
    /\ mode = "sync"
    /\ scope.stage = "exited" /\ scope.raised = "none"
    /\ ExtOf(BeforeLog) = <<1, 2>>
    /\ ExtOf(AfterLog) = <<1, 2>>

HasAsyncHook == \E i \in 1..Len(scope.hooks) : scope.hooks[i].is_async
FirstAsync == CHOOSE i \in 1..Len(scope.hooks) :
    scope.hooks[i].is_async /\ \A j \in 1..(i - 1) : ~scope.hooks[j].is_async
BlockingEnterOfAsyncHook ==
    mode = "sync" /\ HasAsyncHook /\ scope.stage \notin {"new", "built"}
BodyNeverRan == \A k \in 1..Len(log) : log[k] # BodyRan
NoAsyncHookAdvanced ==
    \A i \in 1..Len(scope.hooks) : scope.hooks[i].is_async => scope.hooks[i].pc = 1
\* The first advance of the wrapper does not reach a checkpoint.
FailsBefore(hook) == run_body(hook.body, 1, <<>>).outcome # "yielded"

\* C8 as stated: entering a scope whose list holds a suspend-capable wrapper
\* through the blocking runner always raises the usage error, the body never
\* runs and the suspend-capable wrapper is never advanced.
C8_BlockingEnterAlwaysUsageError ==
    BlockingEnterOfAsyncHook =>
        /\ scope.raised = "RuntimeError_sync"
        /\ BodyNeverRan
        /\ NoAsyncHookAdvanced

\* C8 amended: the enter always fails, the body never runs and no
\* suspend-capable wrapper is advanced; the failure is the usage error unless
\* the before step of a wrapper registered before the first suspend-capable
\* one fails, and then it is that failure.
C8_BlockingEnterNeverCompletes ==
    BlockingEnterOfAsyncHook =>
        /\ scope.stage = "entered"
        /\ scope.raised # "none"
        /\ BodyNeverRan
        /\ NoAsyncHookAdvanced
        /\ scope.raised = "RuntimeError_sync" <=>
              \A j \in 1..(FirstAsync - 1) : ~FailsBefore(scope.hooks[j])

C8_Witness ==
    /\ BlockingEnterOfAsyncHook
    /\ scope.raised = "RuntimeError_sync"
    /\ Len(scope.hooks) = 2
    /\ scope.hooks[1].pc = 2
    /\ scope.hooks[2].is_async

\* The extension defines a legacy start and/or end method and no new-style
\* hook for the phase with hook name h.
LegacyOnly(cls, h) ==
    /\ cls[LEGACY_ENTER(h)].shape # "none" \/ cls[LEGACY_EXIT(h)].shape # "none"
    /\ cls[h].shape = "default"
\* The same extension written in the new style: a generator that runs start,
\* yields once, then runs end.
NewStyle(cls, h) ==
    LET s == cls[LEGACY_ENTER(h)]
        e == cls[LEGACY_EXIT(h)]
        body == (IF s.shape # "none" THEN s.body ELSE <<>>) \o <<"yield">>
                \o (IF e.shape # "none" THEN e.body ELSE <<>>)
    IN IF LegacyOnly(cls, h)
       THEN [cls EXCEPT ![LEGACY_ENTER(h)] = NoMethod,
                        ![LEGACY_EXIT(h)] = NoMethod,
                        ![h] = IF s.shape = "coro" \/ e.shape = "coro"
                               THEN AsyncGen(body) ELSE Gen(body)]
       ELSE cls
NewStyleExtensions == [i \in 1..Len(extensions) |-> NewStyle(extensions[i], phase)]

\* C9: in every phase, a list with legacy-only extensions produces the same
\* wrappers, the same failures and the same sequence of side effects as the
\* list with each of them rewritten as a new-style generator; the legacy
\* list records one deprecation warning per legacy extension, the new-style
\* list none.
C9_LegacyBehavesAsNewStyle ==
    LET built == ContextManager(phase, NewStyleExtensions)
        entered == enter(mode, phase, built.hooks)
        exited == exit(mode, phase, entered.hooks)
    IN /\ built.warned = <<>>
       /\ scope.stage # "new" =>
             /\ (scope.raised = "RuntimeError_both") = (built.raised # "none")
             /\ built.raised = "none" =>
                   Len(warnings) = Cardinality({i \in 1..Len(extensions) :
                                                  LegacyOnly(extensions[i], phase)})
       /\ scope.stage = "built" /\ scope.raised = "none" => scope.hooks = built.hooks
       /\ scope.stage = "entered" =>
             log = entered.effects /\ scope.raised = entered.raised
       /\ scope.stage = "exited" =>
             /\ log = entered.effects \o <<BodyRan>> \o exited.effects
             /\ scope.raised \in {exited.raised, "BodyError"}

C9_Witness ==
    /\ scope.stage = "exited"
    /\ Len(extensions) = 1
    /\ LegacyOnly(extensions[1], phase)
    /\ warnings = <<phase>>
    /\ log = <<[hook |-> phase, extension |-> 1, op |-> "start"], BodyRan,
               [hook |-> phase, extension |-> 1, op |-> "end"]>>

\* The wrapper runs to its checkpoint on enter and to its end (or a further
\* checkpoint) on exit, without a failure.
FailsAfter(hook) ==
    ~FailsBefore(hook)
    /\ run_body(hook.body, FirstYield(hook.body) + 1, <<>>).outcome = "error"
WellFormed(hook) == ~FailsBefore(hook) /\ ~FailsAfter(hook)
EntriesOf(l, i) == SelectSeq(l, LAMBDA e : e # BodyRan /\ e.extension = i)

\* C18: in the suspend-capable runner the usage error of the blocking runner
\* is never raised; with wrappers that do not fail, blocking and
\* suspend-capable in any order, the enter completes with every before step
\* run and the exit completes with every after step run, both in registration
\* order.
C18_AsyncRunnerMixesWrappers ==
    mode = "async" =>
        /\ scope.raised # "RuntimeError_sync"
        /\ (\A i \in 1..Len(scope.hooks) : WellFormed(scope.hooks[i])) =>
              /\ scope.stage = "entered" =>
                    /\ scope.raised = "none"
                    /\ ExtOf(log) = ExtOf(SelectSeq(scope.hooks, HasBefore))
              /\ scope.stage = "exited" =>
                    /\ scope.raised \in {"none", "BodyError"}
                    /\ ExtOf(BeforeLog) = ExtOf(SelectSeq(scope.hooks, HasBefore))
                    /\ ExtOf(AfterLog) = ExtOf(SelectSeq(scope.hooks, HasAfter))

C18_Witness ==
    /\ mode = "async"
    /\ scope.stage = "exited" /\ scope.raised = "none"
    /\ Len(scope.hooks) = 2
    /\ scope.hooks[1].is_async /\ ~scope.hooks[2].is_async
    /\ ExtOf(BeforeLog) = <<1, 2>>
    /\ ExtOf(AfterLog) = <<1, 2>>

Conflicts(cls) == get_hook(phase, 1, cls).raised # "none"
\* The extension defines the new-style hook of the phase as a plain callable.
PlainCallable(cls) ==
    /\ cls[phase].shape \in {"func", "coro"}
    /\ ~Conflicts(cls)
PlainCallables == { i \in 1..Len(extensions) : PlainCallable(extensions[i]) }

\* C19: a new-style hook that is a plain callable is invoked once, in the
\* before advance; the after advance invokes nothing and ends without error.
C19_PlainCallableRunsOnceOnEnter ==
    /\ \A i \in PlainCallables :
          LET w == from_callable(i, extensions[i][phase])
              before == next(w)
              after == next([w EXCEPT !.pc = before.pc])
          IN /\ before.outcome = "yielded" /\ before.effects = extensions[i][phase].body
             /\ after.outcome = "stop" /\ after.effects = <<>>
             /\ EnterSucceeded =>
                   EntriesOf(BeforeLog, i) = <<[hook |-> phase, extension |-> i,
                                                op |-> "start"]>>
             /\ EntriesOf(AfterLog, i) = <<>>
    /\ (scope.stage = "exited"
        /\ \A i \in 1..Len(scope.hooks) : scope.hooks[i].extension \in PlainCallables)
       => scope.raised \in {"none", "BodyError"}

C19_Witness ==
    /\ mode = "async"
    /\ PlainCallables = {1, 2}
    /\ iscoroutinefunction(extensions[1][phase])
    /\ ~iscoroutinefunction(extensions[2][phase])
    /\ scope.stage = "exited" /\ scope.raised = "none"
    /\ Len(log) = 3 /\ log[3] = BodyRan

\* The advance (enter, or exit if is_exit) of the wrapper at position i goes
\* through in the runner's mode.
Passes(i, is_exit) ==
    /\ mode = "sync" => ~scope.hooks[i].is_async
    /\ IF is_exit THEN ~FailsAfter(scope.hooks[i])
       ELSE run_body(scope.hooks[i].body, 1, <<>>).outcome = "yielded"
\* The wrapper at position i is the first whose step fails in the advance.
FirstFailure(i, is_exit) ==
    /\ \A j \in 1..(i - 1) : Passes(j, is_exit)
    /\ mode = "sync" => ~scope.hooks[i].is_async
    /\ IF is_exit THEN FailsAfter(scope.hooks[i])
       ELSE run_body(scope.hooks[i].body, 1, <<>>).outcome = "error"

\* C20: in both runners, when a step of a wrapper fails on enter or on exit,
\* the scope raises that failure and the wrappers registered after it are not
\* advanced: none of their steps of that advance runs.
C20_HookFailurePropagates ==
    \A i \in 1..Len(scope.hooks) :
        /\ scope.stage = "entered" /\ FirstFailure(i, FALSE) =>
              /\ scope.raised = "HookError"
              /\ \A j \in (i + 1)..Len(scope.hooks) :
                    /\ scope.hooks[j].pc = 1
                    /\ EntriesOf(log, scope.hooks[j].extension) = <<>>
        /\ scope.stage = "exited" /\ FirstFailure(i, TRUE) =>
              /\ scope.raised = "HookError"
              /\ \A j \in (i + 1)..Len(scope.hooks) :
                    /\ scope.hooks[j].pc = FirstYield(scope.hooks[j].body) + 1
                    /\ EntriesOf(AfterLog, scope.hooks[j].extension) = <<>>

C20_Witness ==
    /\ mode = "async"
    /\ scope.stage = "exited" /\ scope.raised = "HookError"
    /\ Len(scope.hooks) = 2
    /\ FirstFailure(1, TRUE)
    /\ scope.hooks[2].is_async /\ HasAfter(scope.hooks[2])
    /\ ExtOf(BeforeLog) = <<1, 2>>
    /\ AfterLog = <<>>

\* The scope is left after its body failed.
ExitAfterBodyFailure ==
    /\ scope.stage = "body_done" /\ scope.raised = "BodyError"
    /\ scope'.stage = "exited"
\* The wrappers whose after advance is made on exit: all of them, or those up
\* to the first whose after step fails.
Released ==
    IF \E i \in 1..Len(scope.hooks) : FailsAfter(scope.hooks[i])
    THEN SubSeq(scope.hooks, 1,
                (CHOOSE i \in 1..Len(scope.hooks) :
                    /\ FailsAfter(scope.hooks[i])
                    /\ \A j \in 1..(i - 1) : ~FailsAfter(scope.hooks[j])) - 1)
    ELSE scope.hooks
AfterStepsOf(hooks) ==
    SubSeq(log', Len(log) + 1, Len(log')) =
        [k \in 1..Len(SelectSeq(hooks, HasAfter)) |->
            [hook |-> phase, extension |-> SelectSeq(hooks, HasAfter)[k].extension,
             op |-> "end"]]

\* C21 as stated: when the body of an entered scope fails, the exit runs the
\* after step of every wrapper and the failure of the body is what the scope
\* raises.
C21_BodyFailureReleasesEveryWrapper ==
    [][ExitAfterBodyFailure =>
           AfterStepsOf(scope.hooks) /\ scope'.raised = "BodyError"]_vars

\* C21 amended: when the body of an entered scope fails, the exit runs the
\* after steps in registration order; if none of them fails they all run and
\* the scope raises the failure of the body, otherwise those after the
\* failing one are skipped and the scope raises the failure of the hook.
C21_BodyFailureStillRunsExit ==
    [][ExitAfterBodyFailure =>
           /\ AfterStepsOf(Released)
           /\ scope'.raised = IF Released = scope.hooks THEN "BodyError"
                               ELSE "HookError"]_vars

C21_Witness ==
    /\ scope.stage = "exited" /\ scope.raised = "BodyError"
    /\ Len(scope.hooks) = 2
    /\ ExtOf(BeforeLog) = <<1, 2>>
    /\ ExtOf(AfterLog) = <<1, 2>>

\* The after advance of the wrapper ends the step: its completion signal
\* (StopIteration / StopAsyncIteration) is raised.
Completes(hook) ==
    ~FailsBefore(hook)
    /\ run_body(hook.body, FirstYield(hook.body) + 1, <<>>).outcome = "stop"

\* C24: on exit, the completion signal of a wrapper is not reported as an
\* error and the after steps of the wrappers registered after it still run
\* (up to one that fails); a failure of an after step is raised by the scope.
C24_CompletionSignalSuppressedOnExit ==
    scope.stage = "exited" =>
        /\ scope.raised \notin {"StopIteration", "StopAsyncIteration",
                                 "RuntimeError_StopIteration"}
        /\ (\E i \in 1..Len(scope.hooks) : FailsAfter(scope.hooks[i]))
              <=> scope.raised = "HookError"
        /\ \A i \in 1..Len(scope.hooks) :
              Completes(scope.hooks[i])
              /\ (\A j \in 1..i : ~FailsAfter(scope.hooks[j])) =>
                  /\ scope.hooks[i].pc = Len(scope.hooks[i].body) + 1
                  /\ \A j \in (i + 1)..Len(scope.hooks) :
                        (\A l \in (i + 1)..(j - 1) : ~FailsAfter(scope.hooks[l])) =>
                            /\ scope.hooks[j].advanced = 2
                            /\ HasAfter(scope.hooks[j]) =>
                                  EntriesOf(AfterLog, scope.hooks[j].extension)
                                      # <<>>

C24_Witness ==
    /\ scope.stage = "exited" /\ scope.raised = "none"
    /\ Len(scope.hooks) = 2
    /\ Completes(scope.hooks[1]) /\ ~HasAfter(scope.hooks[1])
    /\ HasAfter(scope.hooks[2])
    /\ ExtOf(AfterLog) = <<2>>

\* The extension defines nothing for the phase: no legacy start or end
\* method, and the new-style hook is the one inherited from the base class.
DefinesNothing(cls) ==
    /\ cls[phase].shape = "default"
    /\ cls[LEGACY_ENTER(phase)].shape = "none"
    /\ cls[LEGACY_EXIT(phase)].shape = "none"

\* C25: an extension that defines nothing for the phase has no wrapper in the
\* phase's list and no step in the scope, and causes no warning and no
\* error: a scope over such extensions only runs its body.
C25_NoHookNoWrapper ==
    /\ \A i \in 1..Len(extensions) :
          DefinesNothing(extensions[i]) =>
              /\ get_hook(phase, i, extensions[i]) =
                     [raised |-> "none", warned |-> FALSE, hook |-> <<>>]
              /\ \A k \in 1..Len(scope.hooks) : scope.hooks[k].extension # i
              /\ EntriesOf(log, i) = <<>>
    /\ (\A i \in 1..Len(extensions) : DefinesNothing(extensions[i])) =>
          /\ scope.hooks = <<>>
          /\ warnings = <<>>
          /\ scope.raised \in {"none", "BodyError"}
          /\ \A k \in 1..Len(log) : log[k] = BodyRan

C25_Witness ==
    /\ Len(extensions) = 2
    /\ DefinesNothing(extensions[1])
    /\ scope.stage = "exited" /\ scope.raised = "none"
    /\ log = <<[hook |-> phase, extension |-> 2, op |-> "start"], BodyRan,
               [hook |-> phase, extension |-> 2, op |-> "end"]>>

\* The legacy methods of the extension a wrapper was built from.
OnStart(hook) == extensions[hook.extension][LEGACY_ENTER(phase)]
OnEnd(hook) == extensions[hook.extension][LEGACY_EXIT(phase)]
LegacyEntries(hook, on) ==
    IF on.shape = "none" THEN <<>>
    ELSE [k \in 1..Len(on.body) |->
             [hook |-> phase, extension |-> hook.extension, op |-> on.body[k]]]

\* C26: a wrapper built from legacy methods is suspend-capable exactly when
\* the start or the end method is a coroutine function; the blocking runner
\* never advances such a wrapper and never gets into the body of the scope,
\* and in the suspend-capable runner it runs start (of either kind) on the
\* before advance and end (of either kind) on the after advance.
C26_LegacyWrapperAsyncIffEitherIs ==
    \A i \in 1..Len(scope.hooks) :
        LegacyOnly(extensions[scope.hooks[i].extension], phase) =>
            LET w == scope.hooks[i]
            IN /\ w.is_async <=> (iscoroutinefunction(OnStart(w))
                                   \/ iscoroutinefunction(OnEnd(w)))
               /\ w.is_async /\ mode = "sync" =>
                     /\ w.advanced = 0
                     /\ EntriesOf(log, w.extension) = <<>>
                     /\ scope.stage \in {"built", "entered"}
                     /\ scope.stage = "entered" => scope.raised # "none"
               /\ w.is_async /\ mode = "async" =>
                     /\ EnterSucceeded =>
                           EntriesOf(BeforeLog, w.extension) =
                               LegacyEntries(w, OnStart(w))
                     /\ ExitSucceeded =>
                           EntriesOf(AfterLog, w.extension) =
                               LegacyEntries(w, OnEnd(w))

C26_Witness ==
    /\ mode = "async"
    /\ scope.stage = "exited" /\ scope.raised = "none"
    /\ Len(scope.hooks) = 1
    /\ scope.hooks[1].is_async
    /\ OnStart(scope.hooks[1]).shape = "func"
    /\ iscoroutinefunction(OnEnd(scope.hooks[1]))
    /\ ExtOf(BeforeLog) = <<1>> /\ ExtOf(AfterLog) = <<1>>

\* C27: a wrapper is advanced once by the enter of its scope and once by the
\* exit, never more; the advance on exit of a step that has no further
\* checkpoint raises nothing.
C27_AdvancedAtMostTwice ==
    \A i \in 1..Len(scope.hooks) :
        /\ scope.hooks[i].advanced <= 2
        /\ scope.stage \in {"new", "built"} => scope.hooks[i].advanced = 0
        /\ scope.stage \in {"entered", "body_done"} => scope.hooks[i].advanced <= 1
        /\ EnterSucceeded /\ scope.stage # "exited" => scope.hooks[i].advanced = 1
        /\ scope.stage = "exited"
           /\ (\A j \in 1..Len(scope.hooks) : ~FailsAfter(scope.hooks[j])) =>
              /\ scope.hooks[i].advanced = 2
              /\ scope.raised \in {"none", "BodyError"}

C27_Witness ==
    /\ scope.stage = "exited" /\ scope.raised = "none"
    /\ Len(scope.hooks) = 2
    /\ \A i \in 1..2 : scope.hooks[i].advanced = 2 /\ Completes(scope.hooks[i])
    /\ mode = "sync"

\* C31: when a registered extension defines both legacy and new-style hooks
\* for the phase, the configuration error has been raised once the
\* extensions are registered, and its message names the phase.
C31_ConfigurationErrorNamesPhase ==
    (\E i \in 1..Len(extensions) : Conflicts(extensions[i])) =>
        /\ scope.raised = "RuntimeError_both"
        /\ \E k \in 1..Len(ConfigurationErrorMessage(phase)) :
              ConfigurationErrorMessage(phase)[k] = phase

\* The enter of the scope fails at the wrapper in position k: it is the first
\* one that is suspend-capable in the blocking runner, or whose first advance
\* does not reach a checkpoint.
FailsOnEnter(hook) == (mode = "sync" /\ hook.is_async) \/ FailsBefore(hook)
EnterFailsAt(k) ==
    /\ k \in 1..Len(scope.hooks)
    /\ FailsOnEnter(scope.hooks[k])
    /\ \A i \in 1..(k - 1) : ~FailsOnEnter(scope.hooks[i])

\* C36: when the enter of a scope fails at the wrapper in position k, the
\* wrappers before k have run their before step, the wrappers after k have
\* run nothing, and no after step of the phase runs, then or later: the
\* scope is never exited.
C36_FailedEnterLeavesBeforeStepsUnmatched ==
    \A k \in 1..Len(scope.hooks) :
        (EnterFailsAt(k) /\ scope.stage # "built") =>
            /\ scope.stage = "entered"
            /\ scope.raised \notin {"none", "BodyError"}
            /\ BodyNeverRan
            /\ \A i \in 1..(k - 1) :
                  /\ scope.hooks[i].advanced = 1
                  /\ EntriesOf(log, scope.hooks[i].extension)
                       = IF HasBefore(scope.hooks[i])
                         THEN <<[hook |-> phase,
                                 extension |-> scope.hooks[i].extension,
                                 op |-> "start"]>>
                         ELSE <<>>
            /\ scope.hooks[k].advanced = (IF mode = "sync" /\ scope.hooks[k].is_async
                                          THEN 0 ELSE 1)
            /\ \A i \in (k + 1)..Len(scope.hooks) :
                  /\ scope.hooks[i].advanced = 0
                  /\ scope.hooks[i].pc = 1
                  /\ EntriesOf(log, scope.hooks[i].extension) = <<>>
            /\ \A j \in 1..Len(log) : log[j].op # "end"

C36_Witness ==
    /\ EnterFailsAt(2)
    /\ scope.stage = "entered"
    /\ scope.raised = "HookError"
    /\ HasBefore(scope.hooks[1]) /\ HasAfter(scope.hooks[1])
    /\ Len(log) = 1

\* The first advance of the wrapper completes without reaching a checkpoint.
ZeroYield(hook) == run_body(hook.body, 1, <<>>).outcome = "stop"
CompletionSignals == {"StopIteration", "StopAsyncIteration", "RuntimeError_StopIteration"}

\* C40: the completion signal is suppressed only on exit.  When the enter
\* reaches a wrapper whose first advance completes without a checkpoint, the
\* enter fails with the completion signal (as the runner's mode lets it out),
\* the body does not run and the wrappers after it run nothing; an exit
\* never fails with a completion signal.
C40_CompletionSignalFailsEnter ==
    /\ \A k \in 1..Len(scope.hooks) :
          (/\ EnterFailsAt(k)
           /\ ZeroYield(scope.hooks[k])
           /\ ~(mode = "sync" /\ scope.hooks[k].is_async)
           /\ scope.stage # "built") =>
              /\ scope.stage = "entered"
              /\ scope.raised =
                    (IF mode = "sync" THEN "StopIteration"
                     ELSE IF scope.hooks[k].is_async THEN "StopAsyncIteration"
                     ELSE "RuntimeError_StopIteration")
              /\ BodyNeverRan
              /\ scope.hooks[k].advanced = 1
              /\ \A i \in (k + 1)..Len(scope.hooks) :
                    /\ scope.hooks[i].advanced = 0
                    /\ EntriesOf(log, scope.hooks[i].extension) = <<>>
    /\ scope.raised \in CompletionSignals => scope.stage = "entered"

C40_Witness ==
    /\ EnterFailsAt(1)
    /\ ZeroYield(scope.hooks[1])
    /\ mode = "async"
    /\ scope.stage = "entered"
    /\ scope.raised = "RuntimeError_StopIteration"
    /\ Len(scope.hooks) = 2
    /\ HasBefore(scope.hooks[2])
    /\ Len(log) = 1

----------------------------------------------------------------------------
(* Properties of a subscription                                            *)

\* What a log entry is, for the order of the steps of a subscription.
Token(e) ==
    IF e.hook = "on_execute" THEN (IF e.op = "start" THEN "before" ELSE "after")
    ELSE IF e.hook = "on_operation"
    THEN (IF e.op = "start" THEN "op_before" ELSE "op_after")
    ELSE IF e.hook = "driver" THEN e.op
    ELSE e.hook
Tokens(l) == [k \in 1..Len(l) |-> Token(l[k])]
Rep(x, n) == [k \in 1..n |-> x]
RECURSIVE Repeat(_, _)
Repeat(seq, n) == IF n = 0 THEN <<>> ELSE seq \o Repeat(seq, n - 1)
Count(l, e) == Cardinality({k \in 1..Len(l) : l[k] = e})

\* The wrappers of the registered extensions for the phase with hook name h.
HooksOf(h) == ContextManager(h, Instances(FALSE)).hooks
NumBefore(h) == Len(SelectSeq(HooksOf(h), HasBefore))
NumAfter(h) == Len(SelectSeq(HooksOf(h), HasAfter))

\* No hook of a registered extension fails in the run: no conflicting
\* definition, no failing step, no fuse that an executing scope reaches.
Conflicting(cls) == \E h \in HookNames : get_hook(h, 1, cls).raised # "none"
Fails(cls) ==
    \E h \in HookNames : \E k \in 1..Len(cls[h].body) : cls[h].body[k] = "fail"
NoHookFails ==
    /\ \A i \in 1..Len(extensions) :
          ~Conflicting(extensions[i]) /\ ~Fails(extensions[i])
    /\ fuse = 0 \/ fuse > Len(source.events) + 2

\* The external iterator emits N events and then is cleanly exhausted.
EmitsEventsOnly ==
    /\ source.parse = "ok"
    /\ source.subscribe = "iterator"
    /\ \A k \in 1..Len(source.events) : source.events[k] = "event"

\* The steps of one executing scope around the calls mid.
ScopeTokens(mid) ==
    Rep("before", NumBefore("on_execute")) \o <<"exec_enter">> \o mid
    \o Rep("after", NumAfter("on_execute")) \o <<"exec_exit">>
\* Up to the event loop; one event; the final pull and the end.
OpeningTokens ==
    Rep("op_before", NumBefore("on_operation"))
    \o <<"op_enter", "parse", "validate">> \o ScopeTokens(<<"subscribe">>)
EventTokens == ScopeTokens(<<"pull">>) \o <<"get_results", "emit">>
ClosingTokens ==
    ScopeTokens(<<"pull">>) \o Rep("op_after", NumAfter("on_operation"))
    \o <<"op_exit">>

\* C2: with N events, a clean exhaustion and no failing hook, the sequence
\* yields exactly N results, one per event and in order, and for each event
\* the executing before steps come first, then the pull, then the executing
\* after steps, then the emission of the result.
C2_EventOrder ==
    EmitsEventsOnly /\ NoHookFails =>
        /\ \A k \in 1..Len(emitted) : emitted[k].data = k /\ emitted[k].errors = <<>>
        /\ Len(emitted) <= Len(source.events)
        /\ sub.pc = "y_event" =>
              /\ sub.pulls = Len(emitted)
              /\ Tokens(log) = OpeningTokens \o Repeat(EventTokens, Len(emitted))
        /\ sub.aiterator = "exhausted" =>
              /\ Len(emitted) = Len(source.events)
              /\ Tokens(log) = OpeningTokens
                               \o Repeat(EventTokens, Len(source.events))
                               \o ClosingTokens
        /\ consumer.wrapper = "done" =>
              consumer.delivered = emitted /\ Len(emitted) = Len(source.events)

C2_Witness ==
    /\ EmitsEventsOnly /\ NoHookFails
    /\ Len(source.events) = 3
    /\ consumer.wrapper = "done"
    /\ Len(consumer.delivered) = 3
    /\ NumBefore("on_execute") = 2
    /\ NumAfter("on_execute") = 2

\* The external subscribe call was made and returned an immediate result.
ImmediateResult ==
    /\ source.subscribe = "result"
    /\ \E k \in 1..Len(log) : log[k] = Mark("subscribe")

\* C3 as stated: when the external subscribe call returns an immediate
\* result, the sequence yields exactly one result, a pre-execution error, and
\* is then exhausted; no event is ever pulled.
C3_ImmediateResultIsPreExecutionError ==
    ImmediateResult =>
        /\ Len(emitted) = 1
        /\ emitted[1].kind = "PreExecutionError"
        /\ sub.pulls = 0

\* C3 amended: exactly one result is yielded, no event is ever pulled and the
\* sequence is then exhausted (subscribe() returns the pre-execution error
\* with the generator closed); the result is the pre-execution error unless
\* an executing after step failed on leaving the scope of the subscribe call,
\* and then it is an error-carrying result with that failure.
C3_ImmediateResultYieldsOnce ==
    ImmediateResult =>
        /\ Len(emitted) = 1
        /\ sub.pulls = 0
        /\ sub.aiterator = "none"
        /\ sub.pc \in {"y_immediate", "y_except", "done"}
        /\ \/ emitted[1].kind = "PreExecutionError" /\ emitted[1].data = 0
           \/ /\ emitted[1] = [ExecutionResult(0, <<"HookError">>) EXCEPT
                                 !.extensions = emitted[1].extensions]
              /\ fuse = 1
        /\ consumer.kind = "subscribe" /\ emitted[1].kind = "PreExecutionError" =>
              /\ consumer.call = "returned_error"
              /\ consumer.delivered = emitted
              /\ sub.pc = "done"
        /\ Len(consumer.delivered) <= 1

C3_Witness ==
    /\ ImmediateResult
    /\ consumer.call = "returned_error"
    /\ consumer.delivered = <<PreExecutionError("ImmediateError")>>
    /\ sub.pc = "done"
    /\ NumAfter("on_operation") = 1
    /\ Count(Tokens(log), "op_after") = 1

\* The k-th pull, the last one of the script, raised a failure.
LastPullRaised ==
    /\ Len(source.events) >= 1
    /\ sub.pulls >= Len(source.events)
    /\ source.events[Len(source.events)] = "raise"

\* C4: when the k-th pull raises, the sequence has yielded exactly k results,
\* k-1 normal ones and then one that carries an error and no data, and it
\* yields nothing more; no further pull is made.
C4_PullFailureEndsSequence ==
    LastPullRaised =>
        LET k == Len(source.events)
        IN /\ sub.pulls = k
           /\ Len(emitted) = k
           /\ \A j \in 1..(k - 1) : emitted[j].data = j /\ emitted[j].errors = <<>>
           /\ emitted[k].data = 0 /\ Len(emitted[k].errors) = 1
           /\ ~sub.running
           /\ sub.pc \in {"y_event", "y_except", "done"}
           /\ consumer.wrapper = "done" => consumer.delivered = emitted

C4_Witness ==
    /\ LastPullRaised
    /\ Len(source.events) = 3
    /\ consumer.wrapper = "done"
    /\ Len(consumer.delivered) = 3
    /\ consumer.delivered[3].errors = <<"PullError">>

\* The consumer closed the sequence subscribe() returned while it was
\* suspended after a result.
ClosedEarly ==
    /\ consumer.wrapper = "closed"
    /\ Len(consumer.delivered) >= 1

\* C5: when the consumer closes the sequence early, the operation after step
\* of every registered wrapper has run exactly once.
C5_CloseRunsOperationAfterSteps ==
    ClosedEarly =>
        \A i \in 1..Len(sub.op_hooks) :
            HasAfter(sub.op_hooks[i]) =>
                Count(log, [hook |-> "on_operation",
                            extension |-> sub.op_hooks[i].extension,
                            op |-> "end"]) = 1

\* C6: when the consumer closes the sequence early, the external event
\* iterator has been closed.
C6_CloseReachesExternalIterator ==
    ClosedEarly /\ sub.aiterator # "none" => sub.aiterator = "closed"

\* A configuration error (legacy and new-style hooks for one phase) was
\* raised: out of the generator, or inside its try block.
ConfigurationErrorRaised ==
    \/ sub.raised = "RuntimeError_both"
    \/ \E k \in 1..Len(emitted) : emitted[k].errors = <<"RuntimeError_both">>

\* C7: when the configuration error is raised, no hook step of any phase has
\* run.
C7_ConfigurationErrorBeforeAnyHook ==
    ConfigurationErrorRaised =>
        \A k \in 1..Len(log) : log[k].hook \notin HookNames

\* C14: when parse/validate gives an error, the executing scope is never
\* entered (no executing before or after step runs) and the driver emits
\* exactly one value, the pre-execution error, whatever its consumer does.
C14_ParseErrorEmitsOnceWithoutExecuting ==
    source.parse = "error" =>
        /\ sub.scopes = 0
        /\ \A k \in 1..Len(log) : log[k].hook # "on_execute"
        /\ Len(emitted) <= 1
        /\ \A k \in 1..Len(emitted) : emitted[k].kind = "PreExecutionError"

\* A hook of the executing phase failed as its scope was entered or left, and
\* the failure was emitted.
IsHookFailure(r) == r.errors = <<"HookError">>
ExecutingHookFailed == \E k \in 1..Len(emitted) : IsHookFailure(emitted[k])

\* The position in the log of the j-th emission.
EmitPositions == { k \in 1..Len(log) : log[k] = Mark("emit") }
EmitPosition(j) ==
    CHOOSE k \in EmitPositions :
        Cardinality({ i \in EmitPositions : i <= k }) = j

\* C15: once a hook of the executing phase has failed on entering or leaving
\* the executing scope, exactly one error-carrying result has been emitted for
\* it, it is the last result, and after it no executing scope is opened and
\* no event is pulled.
C15_ExecutingHookFailureEndsSequence ==
    ExecutingHookFailed =>
        /\ IsHookFailure(Last(emitted))
        /\ Last(emitted).data = 0
        /\ \A k \in 1..(Len(emitted) - 1) : ~IsHookFailure(emitted[k])
        /\ sub.scopes = fuse
        /\ sub.pulls < fuse
        /\ sub.pc \in {"y_except", "done"}
        /\ \A k \in (EmitPosition(Len(emitted)) + 1)..Len(log) :
              Token(log[k]) \in {"op_after", "op_exit"}
        /\ sub.raised = "none" /\ consumer.raised = "none"
        /\ consumer.wrapper = "done" => consumer.delivered = emitted

C15_Witness ==
    /\ ExecutingHookFailed
    /\ fuse = 3
    /\ Len(source.events) = 3
    /\ sub.pulls = 2
    /\ consumer.wrapper = "done"
    /\ Len(consumer.delivered) = 2

\* A result made from what a pull gave: an event, or the failure of the pull.
IsPullFailure(r) == r.errors = <<"PullError">> /\ r.data = 0
IsEventResult(r) ==
    r.kind = "ExecutionResult" /\ (r.errors = <<>> \/ IsPullFailure(r))

\* The log up to position e ends with a pull, every executing after step, the
\* exit of the executing scope, the aggregation of the extensions' results
\* and then the emission.
EmittedAfterExit(e) ==
    LET n == NumAfter("on_execute")
    IN /\ e > n + 3
       /\ Token(log[e]) = "emit"
       /\ Token(log[e - 1]) = "get_results"
       /\ Token(log[e - 2]) = "exec_exit"
       /\ \A i \in 1..n : Token(log[e - 2 - i]) = "after"
       /\ Token(log[e - 3 - n]) = "pull"

\* C16: every per-event result, from an event or from the failure of a pull,
\* is aggregated and emitted only after all the executing after steps of its
\* event have run and the executing scope is left.
C16_ResultsAggregatedAfterExecutingExit ==
    \A j \in 1..Len(emitted) :
        IsEventResult(emitted[j]) => EmittedAfterExit(EmitPosition(j))

C16_Witness ==
    /\ Len(emitted) = 2
    /\ emitted[1].data = 1 /\ emitted[1].errors = <<>>
    /\ IsPullFailure(emitted[2])
    /\ NumAfter("on_execute") = 2

\* C17 as stated: a failure of the pull does not raise to the consumer, the
\* executing after steps of that event run, and the failure of the pull is
\* emitted as a result with no data and a single error.
C17_PullFailureIsEmitted ==
    LastPullRaised =>
        /\ sub.raised = "none" /\ consumer.raised = "none"
        /\ IsPullFailure(emitted[Len(source.events)])
        /\ EmittedAfterExit(EmitPosition(Len(source.events)))

\* C17 amended: a failure of the pull does not raise to the consumer; the
\* executing after steps of that event run and one result with no data and a
\* single error is emitted: the failure of the pull, or, if one of those
\* after steps fails, the failure of the hook.
C17_PullFailureNeverRaises ==
    LastPullRaised =>
        LET k == Len(source.events)
        IN /\ sub.raised = "none" /\ consumer.raised = "none"
           /\ Len(emitted) = k
           /\ emitted[k].data = 0
           /\ \/ IsPullFailure(emitted[k]) /\ EmittedAfterExit(EmitPosition(k))
              \/ IsHookFailure(emitted[k]) /\ fuse = k + 1
           /\ consumer.wrapper = "done" => IsEventResult(Last(consumer.delivered))
                                           \/ IsHookFailure(Last(consumer.delivered))

C17_Witness ==
    /\ LastPullRaised
    /\ IsPullFailure(Last(emitted))
    /\ NumAfter("on_execute") = 2
    /\ consumer.wrapper = "done"
    /\ consumer.raised = "none"
    /\ consumer.delivered = emitted

\* An extension writes the key `noted` into the per-iteration mapping in the
\* executing scope the fuse names.
HasNote == \E i \in 1..Len(extensions) : Notes(extensions[i])
CarriesNote(r) == "noted" \in DOMAIN r.extensions

\* C23: the result of the j-th event carries the key written into the
\* per-iteration mapping exactly when it was written in the executing scope
\* of that event (the j+1-th executing scope): a key written during an
\* earlier event, or during the subscribe call, is not in it.
C23_PerIterationMappingIsReset ==
    \A j \in 1..Len(emitted) :
        IsEventResult(emitted[j]) =>
            (CarriesNote(emitted[j]) <=> (HasNote /\ fuse = j + 1))

C23_Witness ==
    /\ HasNote
    /\ fuse = 3
    /\ Len(emitted) = 3
    /\ ~CarriesNote(emitted[1])
    /\ CarriesNote(emitted[2])
    /\ IsEventResult(emitted[3]) /\ ~CarriesNote(emitted[3])

\* The steps of the operation scope itself, and the steps inside it.
OperationTokens == {"op_before", "op_enter", "op_after", "op_exit"}
Before(T, k, S) == \A j \in 1..(k - 1) : T[j] \in S

\* C28: once the generator has been started, the operation scope is entered
\* once, after its before steps and before anything else, and left at most
\* once; every other step (parse,
\* validate, executing before and after steps, subscribe call, pulls,
\* aggregations and emissions) comes after the enter and before any
\* operation after step.
C28_OperationScopeSpansSubscription ==
    LET T == Tokens(log)
    IN /\ Count(T, "op_enter") = (IF log = <<>> THEN 0 ELSE 1)
       /\ Count(T, "op_exit") <= 1
       /\ Count(T, "op_exit") = 1 <=> (sub.pc = "done" /\ log # <<>>)
       /\ \A k \in 1..Len(T) :
             /\ T[k] = "op_enter" =>
                   /\ Before(T, k, {"op_before"})
                   /\ k = NumBefore("on_operation") + 1
             /\ T[k] \notin OperationTokens =>
                   /\ \E i \in 1..(k - 1) : T[i] = "op_enter"
                   /\ \A j \in 1..(k - 1) : T[j] \notin {"op_after", "op_exit"}
             /\ T[k] = "op_exit" =>
                   /\ k = Len(T)
                   /\ Count(T, "op_after") = NumAfter("on_operation")

C28_Witness ==
    /\ sub.pc = "done"
    /\ Count(Tokens(log), "op_exit") = 1
    /\ Len(emitted) = 3
    /\ Count(Tokens(log), "pull") = 4
    /\ NumBefore("on_operation") = 2
    /\ NumAfter("on_operation") = 2
    /\ consumer.wrapper = "done"

\* The number of executing scopes open after the first k steps of the log.
Depth(T, k) ==
    Cardinality({j \in 1..k : T[j] = "exec_enter"})
    - Cardinality({j \in 1..k : T[j] = "exec_exit"})

\* C29: executing scopes never nest or overlap: at most one is open at any
\* step and none while the generator is suspended or finished; the subscribe
\* call is made in the first one, and every pull in a later one of its own.
C29_ExecutingScopesNeverOverlap ==
    LET T == Tokens(log)
    IN /\ \A k \in 1..Len(T) :
             /\ Depth(T, k) \in {0, 1}
             /\ T[k] = "subscribe" =>
                   /\ Depth(T, k) = 1
                   /\ Cardinality({j \in 1..k : T[j] = "exec_enter"}) = 1
             /\ T[k] = "pull" =>
                   /\ Depth(T, k) = 1
                   /\ Cardinality({j \in 1..k : T[j] = "exec_enter"})
                         = Cardinality({j \in 1..k : T[j] = "pull"}) + 1
             /\ T[k] \in {"emit", "get_results", "op_after", "op_exit"} =>
                   Depth(T, k) = 0
       /\ Depth(T, Len(T)) = 0

C29_Witness ==
    /\ sub.pc = "y_event"
    /\ sub.pulls = 2
    /\ Len(emitted) = 2
    /\ Count(Tokens(log), "exec_enter") = 3
    /\ Count(Tokens(log), "exec_exit") = 3
    /\ NumBefore("on_execute") = 1

\* C32: when the first value of the driver is a pre-execution error,
\* subscribe() has closed the driver by the time it returns the error: the
\* operation after steps have run once, the operation scope is left, and
\* nothing more is pulled from the driver or from the events.
C32_PreExecutionErrorClosesDriver ==
    /\ consumer.call = "returned_error" =>
          /\ sub.pc = "done"
          /\ Count(Tokens(log), "op_after") = NumAfter("on_operation")
          /\ Count(Tokens(log), "op_exit") = 1
          /\ Tokens(log)[Len(log)] = "op_exit"
          /\ Len(emitted) = 1
          /\ emitted[1].kind = "PreExecutionError"
          /\ consumer.delivered = emitted
          /\ sub.pulls = 0
    /\ (/\ consumer.kind = "subscribe"
        /\ consumer.call # "none"
        /\ emitted # <<>>
        /\ emitted[1].kind = "PreExecutionError") =>
          consumer.call = "returned_error"

C32_Witness ==
    /\ consumer.call = "returned_error"
    /\ source.parse = "error"
    /\ NumAfter("on_operation") = 2
    /\ Count(Tokens(log), "op_after") = 2

\* C33: when the external iterator is exhausted without any event and no
\* hook fails, subscribe() returns no sequence: the driver finishes without
\* a first value, the operation after steps have run, and the exhaustion
\* signal is raised to the caller of subscribe().
C33_NoEventRaisesExhaustion ==
    (/\ EmitsEventsOnly /\ NoHookFails
     /\ source.events = <<>>
     /\ consumer.kind = "subscribe"
     /\ consumer.call # "none") =>
        /\ consumer.call = "raised"
        /\ consumer.raised = "StopAsyncIteration"
        /\ consumer.delivered = <<>>
        /\ emitted = <<>>
        /\ sub.pc = "done"
        /\ sub.pulls = 1
        /\ Tokens(log) = OpeningTokens \o ClosingTokens

C33_Witness ==
    /\ EmitsEventsOnly /\ NoHookFails
    /\ source.events = <<>>
    /\ consumer.call = "raised"
    /\ consumer.raised = "StopAsyncIteration"
    /\ NumAfter("on_operation") = 1
    /\ Count(Tokens(log), "op_after") = 1

\* C34: with N events, a clean exhaustion, no failing hook and a consumer
\* that goes to the end, the executing scope is entered and exited N+2
\* times (the subscribe call, each event, the final pull); the last scope
\* runs its before and after steps and no result is emitted for it.
C34_ExecutingScopeRunsNPlusTwoTimes ==
    (EmitsEventsOnly /\ NoHookFails /\ sub.aiterator = "exhausted") =>
        /\ Count(Tokens(log), "exec_enter") = Len(source.events) + 2
        /\ Count(Tokens(log), "exec_exit") = Len(source.events) + 2
        /\ Count(Tokens(log), "before")
             = (Len(source.events) + 2) * NumBefore("on_execute")
        /\ Count(Tokens(log), "after")
             = (Len(source.events) + 2) * NumAfter("on_execute")
        /\ Count(Tokens(log), "subscribe") = 1
        /\ Count(Tokens(log), "pull") = Len(source.events) + 1
        /\ Count(Tokens(log), "emit") = Len(source.events)
        /\ Len(emitted) = Len(source.events)
        /\ SubSeq(Tokens(log), Len(log) - Len(ClosingTokens) + 1, Len(log))
             = ClosingTokens
        /\ Tokens(log)[Len(log) - Len(ClosingTokens)]
             = IF source.events = <<>> THEN "exec_exit" ELSE "emit"

C34_Witness ==
    /\ EmitsEventsOnly /\ NoHookFails
    /\ sub.aiterator = "exhausted"
    /\ Len(source.events) = 2
    /\ Count(Tokens(log), "exec_enter") = 4
    /\ Count(Tokens(log), "before") = 4
    /\ Count(Tokens(log), "after") = 4
    /\ Len(emitted) = 2

\* An executing after step failed in the scope of a pull that gave an event:
\* the scope the fuse names was entered and its pull, the fuse-1-th, was made.
AfterStepFailedAfterEvent ==
    /\ ExecutingHookFailed
    /\ fuse >= 2
    /\ sub.pulls = fuse - 1
    /\ Len(source.events) >= fuse - 1
    /\ source.events[fuse - 1] = "event"

\* C35: when an executing after step fails after an event was pulled, the
\* result of that event is never emitted: the only value emitted for that
\* turn is the result made from the hook's failure, and the sequence ends.
C35_FailedAfterStepDropsEvent ==
    AfterStepFailedAfterEvent =>
        /\ \A k \in 1..Len(emitted) : emitted[k].data # fuse - 1
        /\ Len(emitted) = fuse - 1
        /\ Count(Tokens(log), "emit") = fuse - 1
        /\ \A k \in 1..(fuse - 2) : emitted[k].data = k /\ emitted[k].errors = <<>>
        /\ IsHookFailure(emitted[fuse - 1])
        /\ emitted[fuse - 1].data = 0
        /\ Token(log[EmitPosition(fuse - 1) - 2]) = "exec_exit"
        /\ sub.pc \in {"y_except", "done"}
        /\ sub.pc = "done" => sub.raised = "none"
        /\ consumer.wrapper = "done" =>
              consumer.delivered = emitted /\ consumer.raised = "none"

C35_Witness ==
    /\ AfterStepFailedAfterEvent
    /\ fuse = 3
    /\ Len(source.events) = 3
    /\ consumer.wrapper = "done"
    /\ Len(consumer.delivered) = 2
    /\ IsHookFailure(consumer.delivered[2])

\* A hook of the parsing phase fails, and the generator was started.
ParseHookFailed ==
    /\ \E i \in 1..Len(extensions) :
          \E k \in 1..Len(extensions[i].on_parse.body) :
              extensions[i].on_parse.body[k] = "fail"
    /\ log # <<>>

\* C37: a failure raised during parse/validate is not converted into a
\* result: it leaves the generator at its first advance, after the operation
\* after steps have run, and nothing is emitted.  A failure is converted
\* into a result only once an executing scope has been opened, and only a
\* failure of parse/validate leaves the generator.
C37_ParseFailurePropagates ==
    /\ ParseHookFailed =>
          /\ sub.pc = "done"
          /\ sub.raised = "HookError"
          /\ emitted = <<>>
          /\ sub.scopes = 0
          /\ Count(Tokens(log), "op_after") = NumAfter("on_operation")
          /\ Tokens(log)[Len(log)] = "op_exit"
          /\ consumer.raised = "HookError"
          /\ consumer.call = (IF consumer.kind = "subscribe" THEN "raised"
                              ELSE "finished")
          /\ consumer.delivered = <<>>
    /\ sub.raised # "none" => ParseHookFailed
    /\ \A k \in 1..Len(emitted) :
          emitted[k].kind = "ExecutionResult" /\ emitted[k].errors # <<>> =>
              sub.scopes >= 1

C37_Witness ==
    /\ ParseHookFailed
    /\ sub.raised = "HookError"
    /\ consumer.kind = "direct"
    /\ consumer.call = "finished"
    /\ NumAfter("on_operation") = 1
    /\ Count(Tokens(log), "op_after") = 1

\* C38: every result is emitted while the operation scope is open: no
\* operation after step and no exit of the operation scope comes before an
\* emission, and none has run while the generator is suspended after a
\* result; they run when the generator is resumed after its last result, or
\* closed.
C38_ResultsEmittedInsideOperationScope ==
    /\ \A k \in 1..Len(log) :
          Token(log[k]) = "emit" =>
              /\ \E j \in 1..(k - 1) : Token(log[j]) = "op_enter"
              /\ \A j \in 1..(k - 1) : Token(log[j]) \notin {"op_after", "op_exit"}
    /\ sub.pc \notin {"unstarted", "done"} =>
          /\ Token(log[Len(log)]) = "emit"
          /\ Count(Tokens(log), "emit") = Len(emitted)
          /\ \A j \in 1..Len(log) : Token(log[j]) \notin {"op_after", "op_exit"}
    /\ (\E j \in 1..Len(log) : Token(log[j]) \in {"op_after", "op_exit"}) =>
          sub.pc = "done"

C38_Witness ==
    /\ sub.pc = "y_event"
    /\ ~sub.running
    /\ Len(emitted) = 2
    /\ NumAfter("on_operation") = 2
    /\ Count(Tokens(log), "op_after") = 0
    /\ Count(Tokens(log), "op_before") = 2

\* The generator has finished: the sequence is exhausted, no executing scope
\* is open and the operation scope has been exited.
Terminated ==
    /\ sub.pc = "done"
    /\ Depth(Tokens(log), Len(log)) = 0
    /\ Count(Tokens(log), "op_enter") = 1
    /\ Count(Tokens(log), "op_exit") = 1
    /\ Token(log[Len(log)]) = "op_exit"

\* C39: the external iterator ends (exhaustion or failure) after finitely
\* many events, every hook step and external call completes, and the
\* consumer keeps pulling: then the driver eventually terminates, with the
\* sequence exhausted, no executing scope open and the operation scope
\* exited.
C39_DriverEventuallyTerminates == <>Terminated

C39_Witness ==
    /\ Terminated
    /\ LastPullRaised
    /\ Len(source.events) = 3
    /\ Len(emitted) = 3
    /\ consumer.wrapper = "done"
    /\ Count(Tokens(log), "exec_exit") = 4

----------------------------------------------------------------------------
(* Properties of two concurrent subscriptions                              *)

\* The subscription run alone: its generator advanced n times from the start.
RECURSIVE Alone(_)
Alone(n) ==
    IF n = 0
    THEN [sub |-> NewDriver, log |-> <<>>, warnings |-> <<>>, ctx |-> NewContext,
          emitted |-> <<>>]
    ELSE _subscribe_anext(Alone(n - 1))

\* ... driven as the consumer c has driven its generator so far.
AloneAs(c) ==
    IF c.call = "closed" THEN _subscribe_aclose(Alone(Len(c.delivered)))
    ELSE IF c.call = "finished" THEN Alone(Len(c.delivered) + 1)
    ELSE Alone(Len(c.delivered))

----------------------------------------------------------------------------
(* Properties of results aggregation                                       *)

\* C10: the mapping returned by the suspend-capable aggregation holds every
\* key of the context's per-iteration mapping, with the context's value, also
\* for a key that an extension's get_results contributes.
C10_ContextMappingWins ==
    results.called = "async" =>
        \A k \in DOMAIN ctx.extensions_results :
            /\ k \in DOMAIN results.data
            /\ results.data[k] = ctx.extensions_results[k]

C10_Witness ==
    /\ results.called = "async"
    /\ \E i \in 1..Len(extensions) :
          /\ _implments_get_rseults(extensions[i])
          /\ "a" \in DOMAIN extensions[i].get_results.returns
          /\ "a" \in DOMAIN ctx.extensions_results
          /\ extensions[i].get_results.returns["a"] # ctx.extensions_results["a"]

\* The extensions that implement get_results and contribute key k.
Contributors(k) ==
    { i \in 1..Len(extensions) :
          /\ _implments_get_rseults(extensions[i])
          /\ k \in DOMAIN extensions[i].get_results.returns }

Max(S) == CHOOSE x \in S : \A y \in S : y <= x

HasAsyncGetResults ==
    \E i \in 1..Len(extensions) :
        /\ _implments_get_rseults(extensions[i])
        /\ iscoroutinefunction(extensions[i].get_results)

\* C11: the blocking aggregation returns the mapping the suspend-capable one
\* returns for the same extensions and context, that is with the context's
\* per-iteration mapping laid over the extensions' contributions.
C11_SyncOverlaysContextMapping ==
    results.called = "sync" /\ results.raised = "none" =>
        results.data = get_extensions_results(extensions, ctx)

\* C12: before the overlay of the context's mapping, the value of a key in
\* the merged mapping is the one contributed by the last registered extension
\* that contributes the key, in the blocking and the suspend-capable variant.
C12_LaterExtensionWins ==
    results.called # "none" /\ results.raised = "none" =>
        \A k \in {"a", "b", "c"} :
            Contributors(k) # {}
            /\ ~(results.called = "async" /\ k \in DOMAIN ctx.extensions_results)
            => /\ k \in DOMAIN results.data
               /\ results.data[k] =
                      extensions[Max(Contributors(k))].get_results.returns[k]

C12_Witness ==
    /\ results.called # "none"
    /\ results.raised = "none"
    /\ "a" \notin DOMAIN ctx.extensions_results
    /\ \E i, j \in Contributors("a") :
          /\ i < j
          /\ extensions[i].get_results.returns["a"]
                 # extensions[j].get_results.returns["a"]

Overrides(cls) == cls.get_results.shape \in {"func", "coro"}

\* C30: an aggregation calls get_results only on extensions whose class
\* overrides it, and on each of those it reaches; with no overriding
\* extension and an empty per-iteration mapping it makes no call and returns
\* the empty mapping.
C30_OnlyOverridingExtensionsAreAsked ==
    results.called # "none" =>
        /\ \A k \in 1..Len(log) : Overrides(extensions[log[k].extension])
        /\ results.raised = "none" =>
              ExtOf(log) = SelectSeq([i \in 1..Len(extensions) |-> i],
                                     LAMBDA i : Overrides(extensions[i]))
        /\ (\A i \in 1..Len(extensions) : ~Overrides(extensions[i]))
           /\ ctx.extensions_results = <<>> =>
              /\ log = <<>>
              /\ results.raised = "none"
              /\ results.data = <<>>

C30_Witness ==
    /\ results.called = "async"
    /\ Len(extensions) = 2
    /\ ~Overrides(extensions[1])
    /\ Overrides(extensions[2])
    /\ ExtOf(log) = <<2>>
    /\ results.data = extensions[2].get_results.returns

====
